---- MODULE Spec2Model ----
(***************************************************************************)
(* A model of the mentat transactor core: the store registry (stores.rs),  *)
(* the metadata mutator (metadata.rs), the upsert resolution generations   *)
(* (upsert_resolution.rs) and the timeline rewind (timelines.rs).          *)
(* Each subsystem has its own specification over the shared variables.     *)
(***************************************************************************)
EXTENDS Integers, FiniteSets, Sequences, TLC

VARIABLES
    \* ---- store registry (src/src/stores.rs)
    connections,    \* Stores.connections: name -> [conn, path]
    strong,         \* Arc strong count of every Conn ever created (0 = dropped)
    conn_name,      \* the name each Conn was created for
    next_conn,      \* the next Conn to be created
    st_last,        \* the last registry call and its result
    \* ---- metadata mutator (src/db/src/metadata.rs)
    schema_map,     \* Schema.schema_map: entid -> Attribute
    entid_map,      \* Schema.entid_map: entid -> ident
    ident_map,      \* Schema.ident_map: ident -> entid
    meta_pre,       \* the schema map before the last call
    meta_last,      \* the result of the last call
    \* ---- upsert resolution (src/db/src/upsert_resolution.rs)
    up_input,       \* the batch of TermWithTempIds handed to Generation::from
    avs,            \* the store's unique index: <<a, v>> -> entid
    gen,            \* the current Generation
    up_prev,        \* the Generation before the last evolve step
    up_map,         \* the temp_id_map of the last step
    up_pc,          \* "evolving" | "lowered" | "panicked"
    up_out,         \* the lowered terms
    \* ---- timelines and the transactor (src/db/src/timelines.rs)
    log,            \* rows of timelined_transactions
    datoms,         \* rows of the datoms table: <<e, a, v>>
    partition_map,  \* name -> [start, index]
    nops,           \* number of operations so far (the clock)
    tl_pre,         \* the store before the last operation
    tl_last,        \* the last operation and its result
    snap,           \* tx -> the store before that transaction was transacted
    issued_tx,      \* the tx ids of the committed transactions
    allocated,      \* the entids allocated from the user partition
    since,          \* partition -> the entids allocated since the last rewind
    \* ---- datoms and their order (src/db/src/debug.rs)
    dm_rows,        \* the Vec<Datom> read from the store
    dm_datoms,      \* Datoms.datoms after Datoms::new
    dm_view,        \* Transactions: one Datoms per group of rows
    dm_pc,          \* "rows" | "sorted" | "view"
    \* ---- threads on the registry (src/src/stores.rs)
    lock,           \* the writer of MANAGER: a thread, or 0
    th,             \* thread -> its call of open, the locals and the result
    \* ---- the password store (src/sync15/logins/src/passwords.rs)
    lg_log,         \* rows of the transaction log of the password store
    lg_datoms,      \* its current datoms: <<e, a, v>>
    lg_pm,          \* its partition map
    lg_nops,        \* number of calls so far
    lg_pre,         \* the log and the datoms before the last call
    lg_last         \* the last call and its result

st_vars == <<connections, strong, conn_name, next_conn, st_last>>
meta_vars == <<schema_map, entid_map, ident_map, meta_pre, meta_last>>
up_vars == <<up_input, avs, gen, up_prev, up_map, up_pc, up_out>>
tl_vars == <<log, datoms, partition_map, nops, tl_pre, tl_last, snap, issued_tx,
            allocated, since>>
dm_vars == <<dm_rows, dm_datoms, dm_view, dm_pc>>
cc_vars == <<lock, th>>
lg_vars == <<lg_log, lg_datoms, lg_pm, lg_nops, lg_pre, lg_last>>
vars == <<st_vars, meta_vars, up_vars, tl_vars, dm_vars, cc_vars, lg_vars>>

\* Generic helpers.
Range(f) == {f[x] : x \in DOMAIN f}
Restrict(f, S) == [x \in S |-> f[x]]
Min(S) == CHOOSE x \in S : \A y \in S : x <= y
Max(S) == CHOOSE x \in S : \A y \in S : x >= y

(***************************************************************************)
(* Store registry                                                          *)
(***************************************************************************)
MaxConns == 3
MaxStores == 3

Names == {"a", "b"}
Paths == {"p", "q"}
ConnIds == 1..MaxConns

LiveStores == LET RECURSIVE Sum(_)
                  Sum(S) == IF S = {} THEN 0
                            ELSE LET c == CHOOSE c \in S : TRUE
                                 IN strong[c] + Sum(S \ {c})
              IN Sum(ConnIds)

\* Weak::upgrade succeeds while a strong reference is left.
Upgrade(c) == strong[c] > 0

is_open(name) == name \in DOMAIN connections

StInit ==
    /\ connections = <<>>
    /\ strong = [c \in ConnIds |-> 0]
    /\ conn_name = [c \in ConnIds |-> "none"]
    /\ next_conn = 1
    /\ st_last = [op |-> "none", name |-> "none", result |-> "none", conn |-> 0]

\* Stores::conn without the re-creation of a dead Conn.
conn_upgrade_only(name) ==
    IF is_open(name) /\ Upgrade(connections[name].conn)
    THEN [found |-> TRUE, conn |-> connections[name].conn, fresh |-> FALSE]
    ELSE [found |-> FALSE, conn |-> 0, fresh |-> FALSE]

\* Stores::conn: the registered path and a strong reference to the Conn, which
\* is re-created for the recorded path when the weak reference is dead.
\* Yields [found, conn, fresh]; `fresh` says a new Conn was made.
conn(name) ==
    IF is_open(name)
    THEN IF Upgrade(connections[name].conn)
         THEN [found |-> TRUE, conn |-> connections[name].conn, fresh |-> FALSE]
         ELSE [found |-> TRUE, conn |-> next_conn, fresh |-> TRUE]
    ELSE [found |-> FALSE, conn |-> 0, fresh |-> FALSE]

\* The registry after Stores::conn ran for `name`.
ConnectionsAfterConn(name, r) ==
    IF r.fresh THEN [connections EXCEPT ![name].conn = r.conn] ELSE connections

\* A new Store holding Conn c: one more strong reference.
HoldStore(name, r) ==
    /\ strong' = [strong EXCEPT ![r.conn] = @ + 1]
    /\ conn_name' = IF r.fresh THEN [conn_name EXCEPT ![r.conn] = name] ELSE conn_name
    /\ next_conn' = IF r.fresh THEN next_conn + 1 ELSE next_conn

\* A Conn made by Stores::conn and dropped again with the error.
DropFresh(name, r) ==
    /\ strong' = strong
    /\ conn_name' = IF r.fresh THEN [conn_name EXCEPT ![r.conn] = name] ELSE conn_name
    /\ next_conn' = IF r.fresh THEN next_conn + 1 ELSE next_conn

CanMake == next_conn <= MaxConns /\ LiveStores < MaxStores

\* Stores::open without the comparison of the paths.
open_ignoring_path(name, path) ==
    /\ CanMake
    /\ LET r == conn(name) IN
       IF r.found
       THEN /\ connections' = ConnectionsAfterConn(name, r)
            /\ HoldStore(name, r)
            /\ st_last' = [op |-> "open", name |-> name,
                           result |-> "ok", conn |-> r.conn]
       ELSE /\ connections' =
                [n \in DOMAIN connections \cup {name} |->
                    IF n = name THEN [conn |-> next_conn, path |-> path]
                    ELSE connections[n]]
            /\ HoldStore(name, [found |-> TRUE, conn |-> next_conn, fresh |-> TRUE])
            /\ st_last' = [op |-> "open", name |-> name,
                           result |-> "ok", conn |-> next_conn]

open(name, path) ==
    /\ CanMake
    /\ LET r == conn(name) IN
       IF r.found
       THEN IF connections[name].path # path
            THEN /\ connections' = ConnectionsAfterConn(name, r)
                 /\ DropFresh(name, r)
                 /\ st_last' = [op |-> "open", name |-> name,
                                result |-> "StorePathMismatch", conn |-> 0]
            ELSE /\ connections' = ConnectionsAfterConn(name, r)
                 /\ HoldStore(name, r)
                 /\ st_last' = [op |-> "open", name |-> name,
                                result |-> "ok", conn |-> r.conn]
       ELSE /\ connections' =
                [n \in DOMAIN connections \cup {name} |->
                    IF n = name THEN [conn |-> next_conn, path |-> path]
                    ELSE connections[n]]
            /\ HoldStore(name, [found |-> TRUE, conn |-> next_conn, fresh |-> TRUE])
            /\ st_last' = [op |-> "open", name |-> name,
                           result |-> "ok", conn |-> next_conn]

get(name) ==
    /\ CanMake
    /\ LET r == conn(name) IN
       IF r.found
       THEN /\ connections' = ConnectionsAfterConn(name, r)
            /\ HoldStore(name, r)
            /\ st_last' = [op |-> "get", name |-> name, result |-> "ok", conn |-> r.conn]
       ELSE /\ UNCHANGED <<connections, strong, conn_name, next_conn>>
            /\ st_last' = [op |-> "get", name |-> name, result |-> "None", conn |-> 0]

connect(name) ==
    /\ CanMake
    /\ LET r == conn(name) IN
       IF r.found
       THEN /\ connections' = ConnectionsAfterConn(name, r)
            /\ HoldStore(name, r)
            /\ st_last' = [op |-> "connect", name |-> name, result |-> "ok", conn |-> r.conn]
       ELSE /\ UNCHANGED <<connections, strong, conn_name, next_conn>>
            /\ st_last' = [op |-> "connect", name |-> name,
                           result |-> "StoreNotFound", conn |-> 0]

\* The strong count without the reference close itself upgraded.
CloseStrongCountWithoutOwn(c) == strong[c]

\* Stores::close leaving the entry in the map.
close_keeping_entry(name) ==
    IF ~ is_open(name)
    THEN /\ UNCHANGED <<connections, strong, conn_name, next_conn>>
         /\ st_last' = [op |-> "close", name |-> name,
                        result |-> "StoreNotFound", conn |-> 0]
    ELSE LET c == connections[name].conn IN
         IF Upgrade(c) /\ strong[c] + 1 > 2
         THEN /\ UNCHANGED <<connections, strong, conn_name, next_conn>>
              /\ st_last' = [op |-> "close", name |-> name,
                             result |-> "StoreConnectionStillActive", conn |-> c]
         ELSE /\ UNCHANGED <<connections, strong, conn_name, next_conn>>
              /\ st_last' = [op |-> "close", name |-> name, result |-> "ok", conn |-> c]

\* Stores::close: the strong count seen by close includes its own upgraded
\* reference, so "> 2" means more than one Store.
CloseStrongCount(c) == strong[c] + 1

close(name) ==
    IF ~ is_open(name)
    THEN /\ UNCHANGED <<connections, strong, conn_name, next_conn>>
         /\ st_last' = [op |-> "close", name |-> name,
                        result |-> "StoreNotFound", conn |-> 0]
    ELSE LET c == connections[name].conn IN
         IF Upgrade(c) /\ CloseStrongCount(c) > 2
         THEN /\ UNCHANGED <<connections, strong, conn_name, next_conn>>
              /\ st_last' = [op |-> "close", name |-> name,
                             result |-> "StoreConnectionStillActive", conn |-> c]
         ELSE /\ connections' = Restrict(connections, DOMAIN connections \ {name})
              /\ UNCHANGED <<strong, conn_name, next_conn>>
              /\ st_last' = [op |-> "close", name |-> name, result |-> "ok", conn |-> c]

\* A Store goes out of scope: its Arc<Conn> is dropped.
drop_store(c) ==
    /\ strong[c] > 0
    /\ strong' = [strong EXCEPT ![c] = @ - 1]
    /\ UNCHANGED <<connections, conn_name, next_conn>>
    /\ st_last' = [op |-> "drop", name |-> conn_name[c], result |-> "ok", conn |-> c]

\* Threads calling open through the singleton (stores.rs:69-84, 124-143).
\* The call takes the write lock of MANAGER, runs Stores::open under it and
\* releases it when the statement ends; Stores::open is two steps here, the
\* lookup self.conn(name) and the match on its result.
MaxThreads == 3
Threads == 1..MaxThreads

ThreadStart ==
    [pc |-> "start", name |-> "none", path |-> "none", found |-> FALSE, conn |-> 0,
     store_path |-> "none", store |-> 0, result |-> "none", raced |-> FALSE]

CcInit ==
    /\ lock = 0
    /\ th = [t \in Threads |-> ThreadStart]

\* Variant: the lock is handed out whoever holds it.
WriteLockAlwaysFree == TRUE

\* RwLock::write goes through when no thread holds the lock.
WriteLockFree == lock = 0

\* The caller has its name and path in hand and asks for the lock.
open_begin(t, name, path) ==
    /\ th[t].pc = "start"
    /\ th' = [th EXCEPT ![t].pc = "waiting", ![t].name = name, ![t].path = path]
    /\ UNCHANGED <<lock, connections, strong, conn_name, next_conn, st_last>>

\* Stores::singleton().write()
write_lock(t) ==
    /\ th[t].pc = "waiting"
    /\ WriteLockFree
    /\ lock' = t
    /\ th' = [th EXCEPT ![t].pc = "locked",
                        ![t].raced = \E u \in Threads \ {t} : th[u].pc = "waiting"]
    /\ UNCHANGED <<connections, strong, conn_name, next_conn, st_last>>

\* let store_conn = self.conn(name)?: the thread holds the Arc it was handed.
open_lookup(t) ==
    /\ th[t].pc = "locked"
    /\ LET name == th[t].name
           r == conn(name)
       IN /\ connections' = ConnectionsAfterConn(name, r)
          /\ IF r.found THEN HoldStore(name, r)
             ELSE UNCHANGED <<strong, conn_name, next_conn>>
          /\ th' = [th EXCEPT ![t].pc = "looked", ![t].found = r.found, ![t].conn = r.conn,
                              ![t].store_path =
                                  IF r.found THEN connections[name].path ELSE "none"]
          /\ UNCHANGED <<lock, st_last>>

\* The match on store_conn, the return of the Store and the end of the
\* statement, where the guard of the lock is dropped.
open_finish(t) ==
    /\ th[t].pc = "looked"
    /\ lock' = IF lock = t THEN 0 ELSE lock
    /\ LET name == th[t].name
           path == th[t].path
       IN IF th[t].found
          THEN IF th[t].store_path # path
               THEN /\ strong' = [strong EXCEPT ![th[t].conn] = @ - 1]
                    /\ UNCHANGED <<connections, conn_name, next_conn>>
                    /\ th' = [th EXCEPT ![t].pc = "done", ![t].conn = 0,
                                        ![t].result = "StorePathMismatch"]
                    /\ st_last' = [op |-> "open", name |-> name,
                                   result |-> "StorePathMismatch", conn |-> 0]
               ELSE /\ UNCHANGED <<connections, strong, conn_name, next_conn>>
                    /\ th' = [th EXCEPT ![t].pc = "done", ![t].store = th[t].conn,
                                        ![t].conn = 0, ![t].result = "ok"]
                    /\ st_last' = [op |-> "open", name |-> name,
                                   result |-> "ok", conn |-> th[t].conn]
          ELSE /\ connections' =
                    [n \in DOMAIN connections \cup {name} |->
                        IF n = name THEN [conn |-> next_conn, path |-> path]
                        ELSE connections[n]]
               /\ HoldStore(name, [found |-> TRUE, conn |-> next_conn, fresh |-> TRUE])
               /\ th' = [th EXCEPT ![t].pc = "done", ![t].store = next_conn,
                                   ![t].result = "ok"]
               /\ st_last' = [op |-> "open", name |-> name,
                              result |-> "ok", conn |-> next_conn]

\* The thread drops the Store it was returned.
drop_returned(t) ==
    /\ th[t].pc = "done"
    /\ th[t].store # 0
    /\ strong' = [strong EXCEPT ![th[t].store] = @ - 1]
    /\ th' = [th EXCEPT ![t].pc = "dropped"]
    /\ st_last' = [op |-> "drop", name |-> th[t].name, result |-> "ok",
                   conn |-> th[t].store]
    /\ UNCHANGED <<lock, connections, conn_name, next_conn>>

(***************************************************************************)
(* Metadata mutator                                                        *)
(***************************************************************************)
MaxAssertions == 2

MetaEntids == {40, 41}

DB_DOC == "db/doc"
DB_VALUE_TYPE == "db/valueType"
DB_CARDINALITY == "db/cardinality"
DB_UNIQUE == "db/unique"
DB_INDEX == "db/index"
DB_FULLTEXT == "db/fulltext"
DB_IS_COMPONENT == "db/isComponent"
DB_IDENT == "db/ident"
DB_NO_HISTORY == "db/noHistory"

ReservedAttrs == {DB_IDENT, DB_VALUE_TYPE, DB_CARDINALITY, DB_UNIQUE, DB_INDEX,
                  DB_FULLTEXT, DB_IS_COMPONENT, DB_DOC, DB_NO_HISTORY}

RefV(x) == [t |-> "Ref", v |-> x]
BoolV(x) == [t |-> "Boolean", v |-> x]
StrV(x) == [t |-> "String", v |-> x]
KwV(x) == [t |-> "Keyword", v |-> x]

\* The closed set of value types, by the ident of their :db.type/* entity.
ValueTypeIdents == {"db.type/ref", "db.type/boolean", "db.type/long", "db.type/double",
                    "db.type/string", "db.type/keyword", "db.type/instant", "db.type/uuid"}

\* The well-typed values of each reserved attribute.
WellTyped(attr) ==
    CASE attr = DB_DOC -> {StrV("doc")}
      [] attr = DB_VALUE_TYPE -> {RefV(x) : x \in ValueTypeIdents}
      [] attr = DB_CARDINALITY -> {RefV("db.cardinality/many"), RefV("db.cardinality/one")}
      [] attr = DB_UNIQUE -> {RefV("db.unique/value"), RefV("db.unique/identity")}
      [] attr = DB_INDEX -> {BoolV("true")}
      [] attr = DB_FULLTEXT -> {BoolV("true")}
      [] attr = DB_IS_COMPONENT -> {BoolV("true")}
      [] attr = DB_IDENT -> {KwV("foo/name")}
      [] attr = DB_NO_HISTORY -> {BoolV("true")}
      [] OTHER -> {}

\* The assertions a batch is drawn from: the well-typed ones, an ill-typed
\* :db/valueType and an attribute outside the reserved set.
MetaTriples ==
    {<<e, a, v>> : e \in MetaEntids, a \in ReservedAttrs, v \in UNION {WellTyped(x) : x \in ReservedAttrs}}

MetaTripleOk(t) == t[3] \in WellTyped(t[2])

MetaInputs ==
    {t \in MetaTriples : MetaTripleOk(t)}
        \cup {<<e, DB_VALUE_TYPE, BoolV("true")>> : e \in MetaEntids}
        \cup {<<e, "foo/bar", StrV("doc")>> : e \in MetaEntids}

SeqsUpTo(S, n) == UNION {[1..k -> S] : k \in 0..n}

\* AttributeBuilder: the fields that were set, as a function on their names.
BuilderDefault == <<>>
BuilderSet(b, field, val) ==
    [f \in DOMAIN b \cup {field} |-> IF f = field THEN val ELSE b[f]]

\* One assertion applied to its builder: the match of the first loop.
\* Yields [ok, builder, err]: err is "Expected" for a value the arm does not
\* accept and "DoNotRecognize" for the catch-all arm.
ApplyAssertion(b, attr, value) ==
    CASE attr = DB_DOC ->
            IF value.t = "String" THEN [ok |-> TRUE, builder |-> b, err |-> "none"]
            ELSE [ok |-> FALSE, builder |-> b, err |-> "Expected"]
      [] attr = DB_VALUE_TYPE ->
            IF value.t = "Ref" /\ value.v \in {"db.type/ref", "db.type/boolean", "db.type/double",
                                               "db.type/long", "db.type/string", "db.type/keyword"}
            THEN [ok |-> TRUE, builder |-> BuilderSet(b, "value_type", value.v), err |-> "none"]
            ELSE [ok |-> FALSE, builder |-> b, err |-> "Expected"]
      [] attr = DB_CARDINALITY ->
            IF value = RefV("db.cardinality/many")
            THEN [ok |-> TRUE, builder |-> BuilderSet(b, "multival", TRUE), err |-> "none"]
            ELSE IF value = RefV("db.cardinality/one")
            THEN [ok |-> TRUE, builder |-> BuilderSet(b, "multival", FALSE), err |-> "none"]
            ELSE [ok |-> FALSE, builder |-> b, err |-> "Expected"]
      [] attr = DB_UNIQUE ->
            IF value = RefV("db.unique/value")
            THEN [ok |-> TRUE, builder |-> BuilderSet(b, "unique_value", TRUE), err |-> "none"]
            ELSE IF value = RefV("db.unique/identity")
            THEN [ok |-> TRUE, builder |-> BuilderSet(b, "unique_identity", TRUE), err |-> "none"]
            ELSE [ok |-> FALSE, builder |-> b, err |-> "Expected"]
      [] attr = DB_INDEX ->
            IF value.t = "Boolean"
            THEN [ok |-> TRUE, builder |-> BuilderSet(b, "index", value.v = "true"), err |-> "none"]
            ELSE [ok |-> FALSE, builder |-> b, err |-> "Expected"]
      [] attr = DB_FULLTEXT ->
            IF value.t = "Boolean"
            THEN [ok |-> TRUE, builder |-> BuilderSet(b, "fulltext", value.v = "true"), err |-> "none"]
            ELSE [ok |-> FALSE, builder |-> b, err |-> "Expected"]
      [] attr = DB_IS_COMPONENT ->
            IF value.t = "Boolean"
            THEN [ok |-> TRUE, builder |-> BuilderSet(b, "component", value.v = "true"), err |-> "none"]
            ELSE [ok |-> FALSE, builder |-> b, err |-> "Expected"]
      [] OTHER -> [ok |-> FALSE, builder |-> b, err |-> "DoNotRecognize"]

\* The first loop: group the mutations by impacted entid, bailing at the
\* first bad assertion.  Yields [ok, builders, err].
RECURSIVE GroupBuilders(_, _, _)
GroupBuilders(assertions, i, builders) ==
    IF i > Len(assertions) THEN [ok |-> TRUE, builders |-> builders, err |-> "none"]
    ELSE LET entid == assertions[i][1]
             b == IF entid \in DOMAIN builders THEN builders[entid] ELSE BuilderDefault
             r == ApplyAssertion(b, assertions[i][2], assertions[i][3])
         IN IF ~ r.ok THEN [ok |-> FALSE, builders |-> builders, err |-> r.err]
            ELSE GroupBuilders(assertions, i + 1,
                    [x \in DOMAIN builders \cup {entid} |->
                        IF x = entid THEN r.builder ELSE builders[x]])

is_valid_install_attribute(b) == "value_type" \in DOMAIN b
is_valid_alter_attribute(b) == "value_type" \notin DOMAIN b

AttributeDefault ==
    [value_type |-> "db.type/ref", multival |-> FALSE, unique_value |-> FALSE,
     unique_identity |-> FALSE, index |-> FALSE, fulltext |-> FALSE, component |-> FALSE]

BuilderField(b, attribute, f) == IF f \in DOMAIN b THEN b[f] ELSE attribute[f]

\* AttributeBuilder::build: the default attribute with the set fields.
build(b) == [f \in DOMAIN AttributeDefault |-> BuilderField(b, AttributeDefault, f)]

AlterableFields == {"multival", "unique_value", "unique_identity", "index", "component"}

AlterationOf(f) ==
    CASE f = "multival" -> "Cardinality"
      [] f = "unique_value" -> "UniqueValue"
      [] f = "unique_identity" -> "UniqueIdentity"
      [] f = "index" -> "Index"
      [] f = "component" -> "IsComponent"

\* AttributeBuilder::mutate: the attribute after the alteration, and the
\* alterations that changed something.
mutate(b, attribute) ==
    [attribute |-> [f \in DOMAIN attribute |->
                        IF f \in AlterableFields THEN BuilderField(b, attribute, f)
                        ELSE attribute[f]],
     mutations |-> {AlterationOf(f) : f \in {g \in AlterableFields \cap DOMAIN b :
                                                b[g] # attribute[g]}}]

\* The second loop, over the builders in ascending entid order; the schema
\* map is updated in place, entry by entry.
\* Yields [ok, schema_map, installed, altered, err]; err tells which
\* BadSchemaAssertion was raised.
RECURSIVE ApplyBuilders(_, _, _, _, _)
ApplyBuilders(builders, todo, sm, installed, altered) ==
    IF todo = {} THEN [ok |-> TRUE, schema_map |-> sm, installed |-> installed,
                       altered |-> altered, err |-> "none"]
    ELSE LET entid == Min(todo) IN
         IF entid \notin DOMAIN sm
         THEN IF ~ is_valid_install_attribute(builders[entid])
              THEN [ok |-> FALSE, schema_map |-> sm, installed |-> installed,
                    altered |-> altered, err |-> "InstallDoesNotSetValueType"]
              ELSE ApplyBuilders(builders, todo \ {entid},
                      [x \in DOMAIN sm \cup {entid} |->
                          IF x = entid THEN build(builders[entid]) ELSE sm[x]],
                      installed \cup {entid}, altered)
         ELSE IF ~ is_valid_alter_attribute(builders[entid])
              THEN [ok |-> FALSE, schema_map |-> sm, installed |-> installed,
                    altered |-> altered, err |-> "AlterMustNotSetValueType"]
              ELSE LET m == mutate(builders[entid], sm[entid]) IN
                   ApplyBuilders(builders, todo \ {entid},
                      [sm EXCEPT ![entid] = m.attribute],
                      installed,
                      [x \in DOMAIN altered \cup {entid} |->
                          IF x = entid THEN m.mutations ELSE altered[x]])

\* update_schema_map_from_entid_triples without the install and alter checks
\* of its second loop.
update_schema_map_unchecked(sm, assertions) ==
    LET g == GroupBuilders(assertions, 1, <<>>) IN
    IF ~ g.ok
    THEN [ok |-> FALSE, schema_map |-> sm, installed |-> {}, altered |-> <<>>, err |-> g.err]
    ELSE [ok |-> TRUE,
          schema_map |-> [x \in DOMAIN sm \cup DOMAIN g.builders |->
                            IF x \notin DOMAIN g.builders THEN sm[x]
                            ELSE IF x \in DOMAIN sm THEN mutate(g.builders[x], sm[x]).attribute
                            ELSE build(g.builders[x])],
          installed |-> DOMAIN g.builders \ DOMAIN sm,
          altered |-> [x \in DOMAIN g.builders \cap DOMAIN sm |->
                            mutate(g.builders[x], sm[x]).mutations],
          err |-> "none"]

\* update_schema_map_from_entid_triples reporting every touched entid as
\* installed.
update_schema_map_reporting_all_installed(sm, assertions) ==
    LET g == GroupBuilders(assertions, 1, <<>>) IN
    IF ~ g.ok
    THEN [ok |-> FALSE, schema_map |-> sm, installed |-> {}, altered |-> <<>>, err |-> g.err]
    ELSE LET r == ApplyBuilders(g.builders, DOMAIN g.builders, sm, {}, <<>>) IN
         [r EXCEPT !.installed = IF r.ok THEN DOMAIN g.builders ELSE r.installed]

\* update_schema_map_from_entid_triples: the schema map it leaves and its
\* result.
update_schema_map_from_entid_triples(sm, assertions) ==
    LET g == GroupBuilders(assertions, 1, <<>>) IN
    IF ~ g.ok
    THEN [ok |-> FALSE, schema_map |-> sm, installed |-> {}, altered |-> <<>>, err |-> g.err]
    ELSE ApplyBuilders(g.builders, DOMAIN g.builders, sm, {}, <<>>)

LongAttribute == [AttributeDefault EXCEPT !.value_type = "db.type/long"]
StringAttribute == [AttributeDefault EXCEPT !.value_type = "db.type/string", !.multival = TRUE]

\* The schema maps a call starts from.
InitSchemaMaps ==
    { <<>>,
      [e \in {40} |-> LongAttribute],
      [e \in {41} |-> StringAttribute],
      [e \in {40, 41} |-> IF e = 40 THEN LongAttribute ELSE StringAttribute] }

\* The ident of an attribute entid of the initial schema.
IdentOf(e) == IF e = 40 THEN "foo/count" ELSE "foo/tags"

\* A Schema starts with its three maps in agreement: entid_map and ident_map
\* are inverses and have the key-set of schema_map.
MetaInit ==
    /\ schema_map \in InitSchemaMaps
    /\ entid_map = [e \in DOMAIN schema_map |-> IdentOf(e)]
    /\ ident_map = [i \in {IdentOf(e) : e \in DOMAIN schema_map} |->
                        CHOOSE e \in DOMAIN schema_map : IdentOf(e) = i]
    /\ meta_pre = schema_map
    /\ meta_last = [called |-> FALSE, ok |-> TRUE, assertions |-> <<>>,
                    installed |-> {}, altered |-> <<>>, err |-> "none"]

\* The schema step of a transaction.  The call is handed the schema map
\* alone, and its report's idents_altered is always empty: the two ident maps
\* stay as they are.
UpdateSchemaMap ==
    /\ ~ meta_last.called
    /\ \E assertions \in SeqsUpTo(MetaInputs, MaxAssertions) :
         LET r == update_schema_map_from_entid_triples(schema_map, assertions) IN
         /\ schema_map' = r.schema_map
         /\ UNCHANGED <<entid_map, ident_map>>
         /\ meta_pre' = schema_map
         /\ meta_last' = [called |-> TRUE, ok |-> r.ok, assertions |-> assertions,
                          installed |-> r.installed, altered |-> r.altered,
                          err |-> r.err]

(***************************************************************************)
(* Upsert resolution                                                       *)
(***************************************************************************)
MaxTerms == 3

TempIds == {"t1", "t2", "t3"}

\* The vocabulary of the password store (sync15/logins/src/logins.rs): the
\* attributes by ident, each with an entid of its own.  All are
\* :db.cardinality/one.
AttrNames ==
    <<"credential/id", "credential/username", "credential/password", "credential/createdAt",
      "sync.password/uuid", "sync.password/credential", "sync.password/materialTx",
      "sync.password/metadataTx", "sync.password/serverModified", "sync.password/timesUsed",
      "sync.password/timeCreated", "sync.password/timeLastUsed",
      "sync.password/timePasswordChanged",
      "form/syncPassword", "form/hostname", "form/usernameField", "form/passwordField",
      "form/submitUrl", "form/httpRealm", "login/credential">>
Attr(name) == 30 + (CHOOSE i \in 1..Len(AttrNames) : AttrNames[i] = name)

CREDENTIAL_ID == Attr("credential/id")
CREDENTIAL_USERNAME == Attr("credential/username")
CREDENTIAL_PASSWORD == Attr("credential/password")
CREDENTIAL_CREATED_AT == Attr("credential/createdAt")
SYNC_PASSWORD_UUID == Attr("sync.password/uuid")
SYNC_PASSWORD_CREDENTIAL == Attr("sync.password/credential")
SYNC_PASSWORD_MATERIAL_TX == Attr("sync.password/materialTx")
SYNC_PASSWORD_METADATA_TX == Attr("sync.password/metadataTx")
SYNC_PASSWORD_SERVER_MODIFIED == Attr("sync.password/serverModified")
SYNC_PASSWORD_TIMES_USED == Attr("sync.password/timesUsed")
SYNC_PASSWORD_TIME_CREATED == Attr("sync.password/timeCreated")
SYNC_PASSWORD_TIME_LAST_USED == Attr("sync.password/timeLastUsed")
SYNC_PASSWORD_TIME_PASSWORD_CHANGED == Attr("sync.password/timePasswordChanged")
FORM_SYNC_PASSWORD == Attr("form/syncPassword")
FORM_HOSTNAME == Attr("form/hostname")
FORM_USERNAME_FIELD == Attr("form/usernameField")
FORM_PASSWORD_FIELD == Attr("form/passwordField")
FORM_SUBMIT_URL == Attr("form/submitUrl")
FORM_HTTP_REALM == Attr("form/httpRealm")
LOGIN_CREDENTIAL == Attr("login/credential")
LoginAttrs == {Attr(AttrNames[i]) : i \in 1..Len(AttrNames)}

\* The :db.unique/identity attributes of the vocabulary.
LoginUniqueAttrs ==
    {CREDENTIAL_ID, SYNC_PASSWORD_UUID, SYNC_PASSWORD_CREDENTIAL, FORM_SYNC_PASSWORD}

\* The schema of the batch: attribute 20 is :db.unique/identity, 21 is not;
\* those of the password store are as their vocabulary says.
UpAttrs == {20, 21}
unique_identity(a) == a = 20 \/ a \in LoginUniqueAttrs

Ok(x) == [ok |-> TRUE, val |-> x]
Err(t) == [ok |-> FALSE, tmp |-> t]
Ref(n) == [t |-> "Ref", v |-> n]
Long(n) == [t |-> "Long", v |-> n]

AddOrRetract(op, e, a, v) == [k |-> "AddOrRetract", op |-> op, e |-> e, a |-> a, v |-> v]
RetractAttribute(e, a) == [k |-> "RetractAttribute", e |-> e, a |-> a]
RetractEntity(e) == [k |-> "RetractEntity", e |-> e]

UpEntities == {Err(t) : t \in TempIds} \cup {Ok(5)}
UpValues == {Err("t2"), Err("t3"), Ok(Long(7)), Ok(Long(8))}

\* The terms a batch is drawn from.
UpTerms ==
    {AddOrRetract(op, e, a, v) : op \in {"Add", "Retract"}, e \in UpEntities,
                                 a \in UpAttrs, v \in UpValues}
        \cup {RetractAttribute(e, 21) : e \in {Err("t1"), Ok(5)}}
        \cup {RetractEntity(e) : e \in {Err("t1"), Ok(5)}}

RECURSIVE SetToSeq(_)
SetToSeq(S) == IF S = {} THEN <<>>
               ELSE LET x == CHOOSE x \in S : TRUE IN <<x>> \o SetToSeq(S \ {x})

\* The unique index of the store the batch is transacted against.
StoreAVs == [p \in {<<20, Long(7)>>, <<20, Ref(100)>>, <<20, Long(8)>>} |->
                IF p = <<20, Long(7)>> THEN 100
                ELSE IF p = <<20, Ref(100)>> THEN 200 ELSE 300]

HasTempId(term) ==
    \/ ~ term.e.ok
    \/ term.k = "AddOrRetract" /\ ~ term.v.ok

\* TermWithTempIds::population_type
population_type(term) ==
    IF term.k = "AddOrRetract" /\ ~ term.e.ok /\ ~ term.v.ok
    THEN IF term.op = "Add" /\ unique_identity(term.a) THEN "UpsertsEV" ELSE "AllocationsEV"
    ELSE IF term.k = "AddOrRetract" /\ ~ term.e.ok /\ term.v.ok
    THEN IF term.op = "Add" /\ unique_identity(term.a) THEN "UpsertsE" ELSE "AllocationsE"
    ELSE IF term.k = "AddOrRetract" /\ term.e.ok /\ ~ term.v.ok
    THEN "AllocationsV"
    ELSE "Inert"

Populations == {"upserts_e", "upserts_ev", "allocations_ev", "allocations_e",
                "allocations_v", "upserted", "resolved", "inert"}

GenerationDefault == [p \in Populations |-> <<>>]

PopulationOf(ty) ==
    CASE ty = "UpsertsEV" -> "upserts_ev"
      [] ty = "UpsertsE" -> "upserts_e"
      [] ty = "AllocationsEV" -> "allocations_ev"
      [] ty = "AllocationsE" -> "allocations_e"
      [] ty = "AllocationsV" -> "allocations_v"
      [] ty = "Inert" -> "inert"

\* Generation::from
RECURSIVE GenerationFrom(_, _, _)
GenerationFrom(terms, i, g) ==
    IF i > Len(terms) THEN g
    ELSE LET p == PopulationOf(population_type(terms[i]))
         IN GenerationFrom(terms, i + 1, [g EXCEPT ![p] = Append(@, terms[i])])

can_evolve(g) == g["upserts_e"] # <<>>

\* One term of population `src` rewritten by an evolve step: the population
\* it is pushed to and the term pushed ("panic" for a shape the loop rejects).
EvolveTerm(src, term, m) ==
    IF src \in {"upserts_e", "allocations_e"}
    THEN IF term.k = "AddOrRetract" /\ ~ term.e.ok
         THEN IF term.e.tmp \in DOMAIN m
              THEN [dest |-> IF src = "upserts_e" THEN "upserted" ELSE "resolved",
                    term |-> [term EXCEPT !.e = Ok(m[term.e.tmp])]]
              ELSE [dest |-> "allocations_e", term |-> term]
         ELSE [dest |-> "panic", term |-> term]
    ELSE IF src \in {"upserts_ev", "allocations_ev"}
    THEN IF term.k = "AddOrRetract" /\ ~ term.e.ok /\ ~ term.v.ok
         THEN LET h1 == term.e.tmp \in DOMAIN m
                  h2 == term.v.tmp \in DOMAIN m
              IN IF h1 /\ h2
                 THEN [dest |-> "resolved",
                       term |-> [term EXCEPT !.e = Ok(m[term.e.tmp]), !.v = Ok(Ref(m[term.v.tmp]))]]
                 ELSE IF h2
                 THEN [dest |-> IF src = "upserts_ev" THEN "upserts_e" ELSE "allocations_e",
                       term |-> [term EXCEPT !.v = Ok(Ref(m[term.v.tmp]))]]
                 ELSE IF h1
                 THEN [dest |-> "allocations_v", term |-> [term EXCEPT !.e = Ok(m[term.e.tmp])]]
                 ELSE [dest |-> "allocations_ev", term |-> term]
         ELSE [dest |-> "panic", term |-> term]
    ELSE IF term.k = "AddOrRetract" /\ ~ term.v.ok
         THEN IF term.v.tmp \in DOMAIN m
              THEN [dest |-> "resolved", term |-> [term EXCEPT !.v = Ok(Ref(m[term.v.tmp]))]]
              ELSE [dest |-> "allocations_v", term |-> term]
         ELSE [dest |-> "panic", term |-> term]

\* The populations an evolve step loops over, in the order of its loops.
EvolveOrder == <<"upserts_e", "upserts_ev", "allocations_ev", "allocations_e", "allocations_v">>

RECURSIVE EvolveMoves(_, _, _, _)
EvolveMoves(g, m, i, j) ==
    IF i > Len(EvolveOrder) THEN <<>>
    ELSE IF j > Len(g[EvolveOrder[i]]) THEN EvolveMoves(g, m, i + 1, 1)
    ELSE <<EvolveTerm(EvolveOrder[i], g[EvolveOrder[i]][j], m)>> \o EvolveMoves(g, m, i, j + 1)

RECURSIVE Pushed(_, _, _)
Pushed(moves, p, i) ==
    IF i > Len(moves) THEN <<>>
    ELSE IF moves[i].dest = p THEN <<moves[i].term>> \o Pushed(moves, p, i + 1)
    ELSE Pushed(moves, p, i + 1)

\* Variant: the UpsertE terms of the old generation are carried over.
evolve_one_step_keeping_upserts_e(g, m) ==
    LET moves == EvolveMoves(g, m, 1, 1) IN
    [p \in Populations |->
        IF p = "inert" THEN g["inert"]
        ELSE IF p = "upserts_e" THEN g["upserts_e"] \o Pushed(moves, p, 1)
        ELSE Pushed(moves, p, 1)]

\* Generation::evolve_one_step: the next generation starts empty, receives
\* the rewritten terms of the five tempid populations and the inert terms.
evolve_one_step(g, m) ==
    LET moves == EvolveMoves(g, m, 1, 1) IN
    [p \in Populations |-> IF p = "inert" THEN g["inert"] ELSE Pushed(moves, p, 1)]

\* Variant: only the first UpsertE term is reported.
temp_id_avs_first_only(g) ==
    [i \in 1..(IF g["upserts_e"] = <<>> THEN 0 ELSE 1) |->
        <<g["upserts_e"][i].e.tmp, <<g["upserts_e"][i].a, g["upserts_e"][i].v.val>>>>]

\* Generation::temp_id_avs
temp_id_avs(g) ==
    [i \in 1..Len(g["upserts_e"]) |->
        <<g["upserts_e"][i].e.tmp, <<g["upserts_e"][i].a, g["upserts_e"][i].v.val>>>>]

\* The tempids the unique index resolves, and whether one tempid resolves to
\* two entids or two tempids to one entid.
ResolvedPairs(g, index) ==
    {<<p[1], index[p[2]]>> : p \in {q \in Range(temp_id_avs(g)) : q[2] \in DOMAIN index}}

ConflictingUpserts(g, index) ==
    \E p, q \in ResolvedPairs(g, index) :
        p # q /\ (p[1] = q[1] \/ p[2] = q[2])

resolve_temp_id_avs(g, index) ==
    LET pairs == ResolvedPairs(g, index) IN
    [t \in {p[1] : p \in pairs} |-> (CHOOSE p \in pairs : p[1] = t)[2]]

\* Generation::temp_ids_iter, as the set of tempids it yields.
temp_ids_iter(g) ==
    UNION {{g[p][i].e.tmp : i \in 1..Len(g[p])} :
                p \in {"upserts_e", "allocations_e", "upserts_ev", "allocations_ev"}}
        \cup UNION {{g[p][i].v.tmp : i \in 1..Len(g[p])} :
                p \in {"upserts_ev", "allocations_ev", "allocations_v"}}

\* The entid allocated for a tempid that no upsert resolved.
AllocatedEntid(t) ==
    CASE t = "t1" -> 1001
      [] t = "t2" -> 1002
      [] t = "t3" -> 1003

allocate_temp_ids(g) == [t \in temp_ids_iter(g) |-> AllocatedEntid(t)]

Lowered(op, n, a, v) == [k |-> "AddOrRetract", op |-> op, e |-> n, a |-> a, v |-> v]
Panic == [k |-> "panic"]

\* The closure into_allocated_iter maps over the allocation populations.
LowerAllocation(term, m) ==
    IF term.k # "AddOrRetract" THEN Panic
    ELSE IF ~ term.e.ok /\ ~ term.v.ok
    THEN IF term.e.tmp \in DOMAIN m /\ term.v.tmp \in DOMAIN m
         THEN Lowered(term.op, m[term.e.tmp], term.a, Ref(m[term.v.tmp]))
         ELSE Panic
    ELSE IF ~ term.e.ok
    THEN IF term.e.tmp \in DOMAIN m
         THEN Lowered(term.op, m[term.e.tmp], term.a, term.v.val)
         ELSE Panic
    ELSE IF ~ term.v.ok
    THEN IF term.v.tmp \in DOMAIN m
         THEN Lowered(term.op, term.e.val, term.a, Ref(m[term.v.tmp]))
         ELSE Panic
    ELSE Panic

\* The closure into_allocated_iter maps over `resolved` and `inert`.
LowerResolved(term) ==
    IF term.k = "AddOrRetract" /\ term.e.ok /\ term.v.ok
    THEN Lowered(term.op, term.e.val, term.a, term.v.val)
    ELSE Panic

\* Generation::into_allocated_iter: the lowered terms, or a panic.
into_allocated_iter(g, m) ==
    IF g["upserts_e"] # <<>> \/ g["upserts_ev"] # <<>>
    THEN [panic |-> TRUE, terms |-> <<>>]
    ELSE LET a == g["allocations_ev"] \o g["allocations_e"] \o g["allocations_v"]
             r == g["resolved"] \o g["inert"]
             out == [i \in 1..Len(a) |-> LowerAllocation(a[i], m)]
                        \o [i \in 1..Len(r) |-> LowerResolved(r[i])]
         IN IF \E i \in 1..Len(out) : out[i] = Panic
            THEN [panic |-> TRUE, terms |-> <<>>]
            ELSE [panic |-> FALSE, terms |-> out]

RECURSIVE SubsetsUpTo(_, _)
SubsetsUpTo(S, n) ==
    IF n = 0 THEN {{}}
    ELSE LET P == SubsetsUpTo(S, n - 1) IN P \cup {p \cup {x} : p \in P, x \in S}

UpInit ==
    /\ up_input \in {SetToSeq(S) : S \in SubsetsUpTo(UpTerms, MaxTerms)}
    /\ avs \in {StoreAVs, <<>>}
    /\ gen = GenerationFrom(up_input, 1, GenerationDefault)
    /\ up_prev = gen
    /\ up_map = <<>>
    /\ up_pc = "evolving"
    /\ up_out = <<>>

\* One round of the fixed point: resolve the simple upserts against the
\* unique index and evolve the generation with the result.
Evolve ==
    /\ up_pc = "evolving"
    /\ can_evolve(gen)
    /\ IF ConflictingUpserts(gen, avs)
       THEN /\ up_pc' = "conflict"
            /\ UNCHANGED <<gen, up_prev, up_map>>
       ELSE /\ up_map' = resolve_temp_id_avs(gen, avs)
            /\ up_prev' = gen
            /\ gen' = evolve_one_step(gen, up_map')
            /\ up_pc' = "evolving"
    /\ UNCHANGED <<up_input, avs, up_out>>

\* The fixed point is reached: allocate the remaining tempids and lower.
Lower ==
    /\ up_pc = "evolving"
    /\ ~ can_evolve(gen)
    /\ LET m == allocate_temp_ids(gen)
           r == into_allocated_iter(gen, m)
       IN /\ up_map' = m
          /\ up_pc' = IF r.panic THEN "panicked" ELSE "lowered"
          /\ up_out' = r.terms
    /\ UNCHANGED <<up_input, avs, gen, up_prev>>

(***************************************************************************)
(* The transactor and the timelines                                        *)
(***************************************************************************)
MaxOps == 3
MaxBatch == 2

MAIN_TIMELINE == 0
Timelines == {MAIN_TIMELINE, 1, 2}

\* The attribute the rewind leaves out of the inverse batch: :db/txInstant.
DB_TX_INSTANT == 1
\* The user attributes: 2 is :db.cardinality/many, 3 is :db.cardinality/one.
TlAttrs == {2, 3}
CardinalityOne(a) == a \in {DB_TX_INSTANT, 3} \/ a \in LoginAttrs
TlValues == {7, 8}

\* The first entid of :db.part/user and of :db.part/tx.
UserStart == 10
TxStart == 100

Row(e, a, v, tx, added, timeline) ==
    [e |-> e, a |-> a, v |-> v, tx |-> tx, added |-> added, timeline |-> timeline]
Triple(r) == <<r.e, r.a, r.v>>

\* Partition allocation: the entids [index, index + n) and the advanced cursor.
allocate(pm, part, n) == [pm EXCEPT ![part].index = @ + n]

\* Partition::set_index
set_index(pm, part, value) == [pm EXCEPT ![part].index = value]

Store == [log |-> log, datoms |-> datoms, partition_map |-> partition_map,
          issued_tx |-> issued_tx, allocated |-> allocated, since |-> since]

\* A variant of transact_terms that writes an add of a cardinality-one
\* attribute without retracting the value it replaces.
transact_terms_without_replacement(terms, lg, ds, pm, now) ==
    LET tx == pm["tx"].index
        all == terms \cup {[op |-> "add", e |-> tx, a |-> DB_TX_INSTANT, v |-> now]}
        A == {<<t.e, t.a, t.v>> : t \in {x \in all : x.op = "add"}}
        R == {<<t.e, t.a, t.v>> : t \in {x \in all : x.op = "retract"}} \ A
        conflict == \E x, y \in A : /\ x[1] = y[1] /\ x[2] = y[2] /\ x[3] # y[3]
                                    /\ CardinalityOne(x[2])
        violation == \E x \in A : /\ unique_identity(x[2])
                                   /\ \E d \in ds : d[2] = x[2] /\ d[3] = x[3] /\ d[1] # x[1]
        effA == A \ ds
        effR == R \cap ds
    IN IF conflict
       THEN [ok |-> FALSE, err |-> "CardinalityConflict", tx |-> tx, log |-> lg,
             datoms |-> ds, partition_map |-> pm]
       ELSE IF violation
       THEN [ok |-> FALSE, err |-> "UniquenessViolation", tx |-> tx, log |-> lg,
             datoms |-> ds, partition_map |-> pm]
       ELSE [ok |-> TRUE, err |-> "none", tx |-> tx,
             log |-> lg \cup {Row(d[1], d[2], d[3], tx, TRUE, MAIN_TIMELINE) : d \in effA}
                        \cup {Row(d[1], d[2], d[3], tx, FALSE, MAIN_TIMELINE) : d \in effR},
             datoms |-> (ds \ effR) \cup effA,
             partition_map |-> allocate(pm, "tx", 1)]

\* tx::transact_terms on terms without tempids: allocate the tx entid, stamp
\* :db/txInstant, drop the no-ops, replace cardinality-one values, write.
\* Yields [ok, err, tx, log, datoms, partition_map].
transact_terms(terms, lg, ds, pm, now) ==
    LET tx == pm["tx"].index
        all == terms \cup {[op |-> "add", e |-> tx, a |-> DB_TX_INSTANT, v |-> now]}
        A == {<<t.e, t.a, t.v>> : t \in {x \in all : x.op = "add"}}
        R == {<<t.e, t.a, t.v>> : t \in {x \in all : x.op = "retract"}} \ A
        conflict == \E x, y \in A : /\ x[1] = y[1] /\ x[2] = y[2] /\ x[3] # y[3]
                                    /\ CardinalityOne(x[2])
        violation == \E x \in A : /\ unique_identity(x[2])
                                   /\ \E d \in ds : d[2] = x[2] /\ d[3] = x[3] /\ d[1] # x[1]
        synth == {d \in ds : \E x \in A : /\ CardinalityOne(x[2]) /\ d[1] = x[1]
                                          /\ d[2] = x[2] /\ d[3] # x[3]}
        effA == A \ ds
        effR == (R \cap ds) \cup synth
    IN IF conflict
       THEN [ok |-> FALSE, err |-> "CardinalityConflict", tx |-> tx, log |-> lg,
             datoms |-> ds, partition_map |-> pm]
       ELSE IF violation
       THEN [ok |-> FALSE, err |-> "UniquenessViolation", tx |-> tx, log |-> lg,
             datoms |-> ds, partition_map |-> pm]
       ELSE [ok |-> TRUE, err |-> "none", tx |-> tx,
             log |-> lg \cup {Row(d[1], d[2], d[3], tx, TRUE, MAIN_TIMELINE) : d \in effA}
                        \cup {Row(d[1], d[2], d[3], tx, FALSE, MAIN_TIMELINE) : d \in effR},
             datoms |-> (ds \ effR) \cup effA,
             partition_map |-> allocate(pm, "tx", 1)]

\* An entid of :db.part/db, which lies below :db.part/user.
BootstrapEntid == 5

\* The terms a user batch is drawn from: on an allocated entid, on the
\* tempid of the batch (tmp), which is allocated from :db.part/user, or on
\* the bootstrap entid.
UserTerms ==
    {[op |-> op, tmp |-> FALSE, e |-> e, a |-> a, v |-> v] :
        op \in {"add", "retract"}, e \in allocated, a \in TlAttrs, v \in TlValues}
    \cup {[op |-> "add", tmp |-> FALSE, e |-> BootstrapEntid, a |-> 2, v |-> 7]}
    \cup {[op |-> "add", tmp |-> TRUE, e |-> 0, a |-> a, v |-> v] :
        a \in TlAttrs, v \in TlValues}

NoOp == [op |-> "none", ok |-> TRUE, err |-> "none", tx |-> 0, tx_ids |-> {},
         new_timeline |-> 0, new_e |-> {}, lowest_e |-> 0, fail_at |-> "none",
         prev |-> [op |-> "none", ok |-> TRUE, tx |-> 0]]

Summary(l) == [op |-> l.op, ok |-> l.ok, tx |-> l.tx]

TlInit ==
    /\ log = {}
    /\ datoms = {}
    /\ partition_map = [p \in {"user", "tx"} |->
                           IF p = "user" THEN [start |-> UserStart, index |-> UserStart]
                           ELSE [start |-> TxStart, index |-> TxStart]]
    /\ nops = 0
    /\ issued_tx = {}
    /\ allocated = {}
    /\ since = [p \in {"user", "tx"} |-> {}]
    /\ tl_pre = Store
    /\ tl_last = NoOp
    /\ snap = <<>>

\* A user transaction: resolve the tempid, then transact the terms.
transact(batch) ==
    LET uses_tmp == \E t \in batch : t.tmp
        n == partition_map["user"].index
        pm1 == IF uses_tmp THEN allocate(partition_map, "user", 1) ELSE partition_map
        terms == {[op |-> t.op, e |-> IF t.tmp THEN n ELSE t.e, a |-> t.a, v |-> t.v] :
                    t \in batch}
        r == transact_terms(terms, log, datoms, pm1, nops + 1)
    IN /\ tl_pre' = Store
       /\ nops' = nops + 1
       /\ IF r.ok
          THEN /\ log' = r.log
               /\ datoms' = r.datoms
               /\ partition_map' = r.partition_map
               /\ snap' = [t \in DOMAIN snap \cup {r.tx} |->
                              IF t = r.tx THEN Store ELSE snap[t]]
               /\ issued_tx' = issued_tx \cup {r.tx}
               /\ allocated' = allocated \cup (IF uses_tmp THEN {n} ELSE {})
               /\ since' = [since EXCEPT !["tx"] = @ \cup {r.tx},
                                         !["user"] = @ \cup (IF uses_tmp THEN {n} ELSE {})]
               /\ tl_last' = [NoOp EXCEPT !.op = "transact", !.tx = r.tx,
                                          !.new_e = IF uses_tmp THEN {n} ELSE {},
                                          !.prev = Summary(tl_last)]
          ELSE /\ UNCHANGED <<log, datoms, partition_map, snap, issued_tx, allocated, since>>
               /\ tl_last' = [NoOp EXCEPT !.op = "transact", !.ok = FALSE, !.err = r.err,
                                          !.prev = Summary(tl_last)]

\* Variant: the block is reported to be on the main timeline whatever its rows say.
current_timeline_assuming_main(lg, smallest_tx, tx_ids) ==
    LET rows == {r \in lg : r.tx >= smallest_tx} IN
    IF rows = {} THEN {[ok |-> FALSE, err |-> "TimelinesInvalidTransactionIds", timeline |-> 0]}
    ELSE IF \E r \in rows : r.tx \notin tx_ids
    THEN {[ok |-> FALSE, err |-> "TimelinesNotOnTail", timeline |-> 0]}
    ELSE {[ok |-> TRUE, err |-> "none", timeline |-> MAIN_TIMELINE]}

\* current_timeline: the outcomes the row order of the query allows.  The
\* first row fixes the timeline; the first offending row fixes the error.
current_timeline(lg, smallest_tx, tx_ids) ==
    LET rows == {r \in lg : r.tx >= smallest_tx} IN
    IF rows = {} THEN {[ok |-> FALSE, err |-> "TimelinesInvalidTransactionIds", timeline |-> 0]}
    ELSE UNION {
        IF first.tx \notin tx_ids
        THEN {[ok |-> FALSE, err |-> "TimelinesNotOnTail", timeline |-> 0]}
        ELSE LET rest == rows \ {first}
                 off_tail == {r \in rest : r.tx \notin tx_ids}
                 mixed == {r \in rest : r.tx \in tx_ids /\ r.timeline # first.timeline}
             IN IF off_tail = {} /\ mixed = {}
                THEN {[ok |-> TRUE, err |-> "none", timeline |-> first.timeline]}
                ELSE {[ok |-> FALSE, err |-> "TimelinesNotOnTail", timeline |-> 0] :
                            x \in IF off_tail = {} THEN {} ELSE {1}}
                     \cup {[ok |-> FALSE, err |-> "TimelinesMixed", timeline |-> 0] :
                            x \in IF mixed = {} THEN {} ELSE {1}}
        : first \in rows}

\* Variant: the rows keep their timeline.
move_transactions_to_nowhere(lg, tx_ids, new_timeline) == lg

\* move_transactions_to
move_transactions_to(lg, tx_ids, new_timeline) ==
    {IF r.tx \in tx_ids THEN [r EXCEPT !.timeline = new_timeline] ELSE r : r \in lg}

\* eradicate_transaction
eradicate_transaction(lg, tx) == {r \in lg : r.tx # tx}

\* Variant: the rows after the smallest tx of the block, which leaves it out.
RowsAfterNext(lg, tx_id) == {r \in lg : r.tx > tx_id + 1 /\ r.timeline = MAIN_TIMELINE}

\* The rows reversed_terms_after selects: after tx_id, on the main timeline.
RowsAfter(lg, tx_id) == {r \in lg : r.tx > tx_id /\ r.timeline = MAIN_TIMELINE}

\* One row as a term with add and retract swapped.
ReversedTerm(r) == [op |-> IF r.added THEN "retract" ELSE "add", e |-> r.e, a |-> r.a, v |-> r.v]

\* reversed_terms_after
reversed_terms_after(lg, tx_id) == {ReversedTerm(r) : r \in RowsAfter(lg, tx_id)}

\* The rows that can come last under ORDER BY tx DESC: those of the lowest tx.
LastRows(lg, tx_id) ==
    {r \in RowsAfter(lg, tx_id) : \A q \in RowsAfter(lg, tx_id) : r.tx <= q.tx}

\* The filter on the inverse batch.
filtered_reversed_terms(terms) == {t \in terms : t.a # DB_TX_INSTANT}

RewindFailed(err, fail_at, tx_ids, new_timeline) ==
    tl_last' = [NoOp EXCEPT !.op = "rewind", !.ok = FALSE, !.err = err, !.tx_ids = tx_ids,
                            !.new_timeline = new_timeline, !.fail_at = fail_at,
                            !.prev = Summary(tl_last)]

\* Variant: the tx partition keeps its index.
RewoundPartitionMapKeepTx(pm, lowest_e, smallest_tx) ==
    set_index(pm, "user", lowest_e)

\* Variant: the user partition keeps its index.
RewoundPartitionMapKeepUser(pm, lowest_e, smallest_tx) ==
    set_index(pm, "tx", smallest_tx)

\* The partition map a successful rewind returns.
RewoundPartitionMap(pm, lowest_e, smallest_tx) ==
    set_index(set_index(pm, "user", lowest_e), "tx", smallest_tx)

\* move_from_main_timeline; fail_at names the statement whose storage call
\* fails, if any, and `last` is the row the query returns last.
move_from_main_timeline(tx_ids, new_timeline) ==
    /\ tl_pre' = Store
    /\ nops' = nops + 1
    /\ UNCHANGED <<snap, issued_tx, allocated>>
    /\ IF new_timeline = MAIN_TIMELINE
       THEN /\ RewindFailed("NotYetImplemented", "none", tx_ids, new_timeline)
            /\ UNCHANGED <<log, datoms, partition_map, since>>
       ELSE IF tx_ids = {}
       THEN /\ RewindFailed("TimelinesNoTransactionsSupplied", "none", tx_ids, new_timeline)
            /\ UNCHANGED <<log, datoms, partition_map, since>>
       ELSE LET smallest_tx == Min(tx_ids) IN
            \E ct \in current_timeline(log, smallest_tx, tx_ids) :
            IF ~ ct.ok
            THEN /\ RewindFailed(ct.err, "none", tx_ids, new_timeline)
                 /\ UNCHANGED <<log, datoms, partition_map, since>>
            ELSE IF ct.timeline # MAIN_TIMELINE
            THEN /\ RewindFailed("TimelinesNotOnMain", "none", tx_ids, new_timeline)
                 /\ UNCHANGED <<log, datoms, partition_map, since>>
            ELSE IF LastRows(log, smallest_tx - 1) = {}
            THEN /\ RewindFailed("unreachable", "none", tx_ids, new_timeline)
                 /\ UNCHANGED <<log, datoms, partition_map, since>>
            ELSE \E last \in LastRows(log, smallest_tx - 1),
                    fail_at \in {"none", "transact", "eradicate", "relabel"} :
                 LET lowest_e == last.e
                     terms == filtered_reversed_terms(reversed_terms_after(log, smallest_tx - 1))
                     r == transact_terms(terms, log, datoms, partition_map, nops + 1)
                 IN IF fail_at = "transact" \/ ~ r.ok
                    THEN /\ RewindFailed(IF r.ok THEN "StorageError" ELSE r.err,
                                         "transact", tx_ids, new_timeline)
                         /\ UNCHANGED <<log, datoms, partition_map, since>>
                    ELSE IF fail_at = "eradicate"
                    THEN /\ RewindFailed("StorageError", fail_at, tx_ids, new_timeline)
                         /\ log' = r.log
                         /\ datoms' = r.datoms
                         /\ UNCHANGED <<partition_map, since>>
                    ELSE IF fail_at = "relabel"
                    THEN /\ RewindFailed("StorageError", fail_at, tx_ids, new_timeline)
                         /\ log' = eradicate_transaction(r.log, r.tx)
                         /\ datoms' = r.datoms
                         /\ UNCHANGED <<partition_map, since>>
                    ELSE /\ log' = move_transactions_to(eradicate_transaction(r.log, r.tx),
                                                        tx_ids, new_timeline)
                         /\ datoms' = r.datoms
                         /\ partition_map' =
                                RewoundPartitionMap(partition_map, lowest_e, smallest_tx)
                         /\ since' = [p \in {"user", "tx"} |-> {}]
                         /\ tl_last' = [NoOp EXCEPT !.op = "rewind", !.tx = r.tx,
                                                    !.tx_ids = tx_ids,
                                                    !.new_timeline = new_timeline,
                                                    !.lowest_e = lowest_e,
                                                    !.prev = Summary(tl_last)]


\* A second rewind (timelines.rs): the store after one transaction on a fresh
\* entid and its rewind to timeline 1, from which further operations run.
RepeatOps == 4

PartitionMapAtStart ==
    [p \in {"user", "tx"} |->
        IF p = "user" THEN [start |-> UserStart, index |-> UserStart]
        ELSE [start |-> TxStart, index |-> TxStart]]

StoreAtStart ==
    [log |-> {}, datoms |-> {}, partition_map |-> PartitionMapAtStart,
     issued_tx |-> {}, allocated |-> {}, since |-> [p \in {"user", "tx"} |-> {}]]

\* The store after transacting [[:db/add "t" a v]] and rewinding it to
\* timeline 1, `last` being the row the inverse query returned last.
AfterFirstRewind(a, v, last) ==
    LET pm1 == allocate(PartitionMapAtStart, "user", 1)
        r1 == transact_terms({[op |-> "add", e |-> UserStart, a |-> a, v |-> v]},
                             {}, {}, pm1, 1)
        terms == filtered_reversed_terms(reversed_terms_after(r1.log, TxStart - 1))
        r2 == transact_terms(terms, r1.log, r1.datoms, r1.partition_map, 2)
    IN /\ last \in LastRows(r1.log, TxStart - 1)
       /\ log = move_transactions_to(eradicate_transaction(r2.log, r2.tx), {TxStart}, 1)
       /\ datoms = r2.datoms
       /\ partition_map = RewoundPartitionMap(r1.partition_map, last.e, TxStart)
       /\ nops = 2
       /\ issued_tx = {TxStart}
       /\ allocated = {UserStart}
       /\ since = [p \in {"user", "tx"} |-> {}]
       /\ snap = [t \in {TxStart} |-> StoreAtStart]
       /\ tl_pre = [log |-> r1.log, datoms |-> r1.datoms, partition_map |-> r1.partition_map,
                    issued_tx |-> {TxStart}, allocated |-> {UserStart},
                    since |-> [p \in {"user", "tx"} |->
                                  IF p = "user" THEN {UserStart} ELSE {TxStart}]]
       /\ tl_last = [NoOp EXCEPT !.op = "rewind", !.tx = r2.tx, !.tx_ids = {TxStart},
                                 !.new_timeline = 1, !.lowest_e = last.e,
                                 !.prev = [op |-> "transact", ok |-> TRUE, tx |-> TxStart]]

RewoundOnce ==
    \E a \in TlAttrs, v \in TlValues :
        \E last \in {Row(e, b, w, TxStart, TRUE, MAIN_TIMELINE) :
                        e \in {UserStart, TxStart}, b \in TlAttrs \cup {DB_TX_INSTANT},
                        w \in TlValues \cup {1}} :
            AfterFirstRewind(a, v, last)

\* The tx ids a rewind is asked for: those a run can have issued, and one
\* below the tx partition.
TxIdPool == (TxStart - 1)..(TxStart + MaxOps - 2)

\* The timelines a rewind is asked for: main, those in use and one more.
TimelineChoices ==
    {t \in Timelines : t <= Max({r.timeline : r \in log} \cup {MAIN_TIMELINE}) + 1}

(***************************************************************************)
(* Datoms and their order (debug.rs)                                       *)
(***************************************************************************)
MaxDatoms == 3

\* Datom.added: Option<bool>.
AddedValues == {"None", "false", "true"}

\* The derived order of Option<bool>: None < Some(false) < Some(true).
AddedRank(added) == CASE added = "None" -> 0 [] added = "false" -> 1 [] added = "true" -> 2

DatomValues == {Ref(7), Long(7)}

\* ValueType::value_type_tag.
value_type_tag(t) == CASE t = "Ref" -> 0 [] t = "Long" -> 5

\* The derived order of TypedValue: by variant, then by payload.
VariantRank(t) == CASE t = "Ref" -> 0 [] t = "Long" -> 2

Datom(e, a, v, tx, added) == [e |-> e, a |-> a, v |-> v, tx |-> tx, added |-> added]

DatomUniverse ==
    {Datom(e, 1, v, tx, added) :
        e \in {1, 2}, v \in DatomValues, tx \in {100, 101}, added \in AddedValues}

\* Ordering as an integer: Less = -1, Equal = 0, Greater = 1.
\* The comparison of two tuples of integers of the same length.
RECURSIVE TupleCmp(_, _, _)
TupleCmp(s, t, i) ==
    IF i > Len(s) THEN 0
    ELSE IF s[i] < t[i] THEN -1
    ELSE IF s[i] > t[i] THEN 1
    ELSE TupleCmp(s, t, i + 1)

\* The two keys of datom_cmp; a TypedValue is compared by variant and payload.
TxKey(d) == <<d.tx, d.e, d.a, value_type_tag(d.v.t), VariantRank(d.v.t), d.v.v, AddedRank(d.added)>>
EavKey(d) == <<d.e, d.a, value_type_tag(d.v.t), VariantRank(d.v.t), d.v.v, d.tx>>

\* datom_cmp ignoring `added` in its first key.
datom_cmp_ignoring_added(x, y) ==
    IF x.added # "None"
    THEN TupleCmp(SubSeq(TxKey(x), 1, 6), SubSeq(TxKey(y), 1, 6), 1)
    ELSE TupleCmp(EavKey(x), EavKey(y), 1)

\* datom_cmp always taking its second key.
datom_cmp_by_eav(x, y) == TupleCmp(EavKey(x), EavKey(y), 1)

\* datom_cmp: the key is chosen by x.added alone.
datom_cmp(x, y) ==
    IF x.added # "None"
    THEN TupleCmp(TxKey(x), TxKey(y), 1)
    ELSE TupleCmp(EavKey(x), EavKey(y), 1)

\* The rearrangements of a vector.
Perms(s) ==
    {[i \in 1..Len(s) |-> s[f[i]]] :
        f \in {g \in [1..Len(s) -> 1..Len(s)] : \A i, j \in 1..Len(s) : g[i] = g[j] => i = j}}

\* datom_cmp is a total order on the elements of s.
TotalOrderOn(s) ==
    /\ \A i, j \in 1..Len(s) : datom_cmp(s[i], s[j]) = - datom_cmp(s[j], s[i])
    /\ \A i, j, k \in 1..Len(s) :
          (datom_cmp(s[i], s[j]) <= 0 /\ datom_cmp(s[j], s[k]) <= 0) => datom_cmp(s[i], s[k]) <= 0

\* sort_unstable_by(datom_cmp): under a total order the vector comes out
\* ascending, elements that compare Equal in any order; otherwise the order
\* of the elements is unspecified.
sort_unstable_by(s) ==
    IF TotalOrderOn(s)
    THEN {p \in Perms(s) : \A i \in 1..(Len(p) - 1) : datom_cmp(p[i], p[i + 1]) <= 0}
    ELSE Perms(s)

\* itertools group_by(|x| x.tx): the runs of consecutive rows of one tx.
RECURSIVE group_by_tx(_, _, _)
group_by_tx(rows, i, groups) ==
    IF i > Len(rows) THEN groups
    ELSE IF groups # <<>> /\ groups[Len(groups)][1].tx = rows[i].tx
    THEN group_by_tx(rows, i + 1,
            [groups EXCEPT ![Len(groups)] = Append(groups[Len(groups)], rows[i])])
    ELSE group_by_tx(rows, i + 1, Append(groups, <<rows[i]>>))

\* The rows the transactions table can hold: `added` is present, and the
\* rows of a transaction are written together, in tx order.
TransactionRows(s) ==
    /\ \A i \in 1..Len(s) : s[i].added # "None"
    /\ \A i \in 1..(Len(s) - 1) : s[i].tx <= s[i + 1].tx
    /\ \A i, j \in 1..Len(s) : s[i] = s[j] => i = j

RECURSIVE Flatten(_)
Flatten(ss) == IF ss = <<>> THEN <<>> ELSE Head(ss) \o Flatten(Tail(ss))

DmInit ==
    /\ dm_rows \in SeqsUpTo(DatomUniverse, MaxDatoms)
    /\ dm_datoms = <<>>
    /\ dm_view = <<>>
    /\ dm_pc = "rows"

\* Datoms::new: the vector is sorted in place.
DatomsNew ==
    /\ dm_pc = "rows"
    /\ dm_datoms' \in sort_unstable_by(dm_rows)
    /\ dm_pc' = "sorted"
    /\ UNCHANGED <<dm_rows, dm_view>>

\* transactions_after: the rows are grouped by tx and each group is handed to
\* Datoms::new.
transactions_after ==
    /\ dm_pc = "rows"
    /\ TransactionRows(dm_rows)
    /\ LET groups == group_by_tx(dm_rows, 1, <<>>) IN
       \E view \in [1..Len(groups) -> UNION {Perms(g) : g \in Range(groups)}] :
           /\ \A i \in 1..Len(groups) : view[i] \in sort_unstable_by(groups[i])
           /\ dm_view' = view
    /\ dm_pc' = "view"
    /\ UNCHANGED <<dm_rows, dm_datoms>>

(***************************************************************************)
(* The Sync 1.5 password store                                             *)
(***************************************************************************)
MaxLoginOps == 3

InstantV(x) == [t |-> "Instant", v |-> x]

\* The records the server hands down.  Strings and instants are numbers;
\* an absent Option is None.
None == [t |-> "None", v |-> 0]
Uuids == {1, 2}
Usernames == {7}
Passwords == {8, 9}
\* A record is modified before every local transaction or after all of them.
Modifieds == {TxStart - 1, TxStart + 2 * MaxLoginOps}
ServerPassword(uuid, password, modified) ==
    [modified |-> modified, uuid |-> uuid, hostname |-> 3,
     target |-> IF uuid = 1 THEN [k |-> "FormSubmitURL", v |-> 4]
                ELSE [k |-> "HttpRealm", v |-> 4],
     username |-> 7, password |-> password,
     username_field |-> StrV(5),
     password_field |-> IF uuid = 1 THEN StrV(6) ELSE None,
     time_created |-> 1, time_password_changed |-> 2, time_last_used |-> 2,
     times_used |-> 1]
ServerPasswords ==
    {ServerPassword(u, p, m) : u \in Uuids, p \in Passwords, m \in Modifieds}

\* TermBuilder::add on a named tempid, and add / retract on an entid.
AddTemp(t, a, v) == AddOrRetract("Add", Err(t), a, v)
AddEntid(e, a, v) == AddOrRetract("Add", Ok(e), a, Ok(v))
RetractEntid(e, a, v) == AddOrRetract("Retract", Ok(e), a, Ok(v))

\* The entities that hold v for a, and the values e holds for a.
EntitiesOf(ds, a, v) == {d[1] : d \in {x \in ds : x[2] = a /\ x[3] = v}}
ValuesOf(ds, e, a) == {d[3] : d \in {x \in ds : x[1] = e /\ x[2] = a}}
\* The transaction that asserted a current datom.
TxOf(lg, d) == Max({r.tx : r \in {x \in lg : Triple(x) = d /\ x.added}})

\* credentials::build_credential
build_credential(credential) ==
    <<AddTemp("c", CREDENTIAL_ID, Ok(StrV(credential.id))),
      AddTemp("c", CREDENTIAL_USERNAME, Ok(StrV(credential.username))),
      AddTemp("c", CREDENTIAL_PASSWORD, Ok(StrV(credential.password))),
      AddTemp("c", CREDENTIAL_CREATED_AT, Ok(InstantV(credential.created_at)))>>

\* Variant: the form is not tied to the sync password.
transact_sync_password_metadata_untied_form(login, credential_id) ==
    <<AddTemp("c", CREDENTIAL_ID, Ok(StrV(credential_id))),
      AddTemp("sl", SYNC_PASSWORD_UUID, Ok(StrV(login.uuid))),
      AddTemp("sl", SYNC_PASSWORD_CREDENTIAL, Err("c")),
      AddTemp("sl", SYNC_PASSWORD_SERVER_MODIFIED, Ok(InstantV(login.modified))),
      AddTemp("sl", SYNC_PASSWORD_TIMES_USED, Ok(Long(login.times_used))),
      AddTemp("sl", SYNC_PASSWORD_TIME_CREATED, Ok(InstantV(login.time_created))),
      AddTemp("sl", SYNC_PASSWORD_TIME_LAST_USED, Ok(InstantV(login.time_last_used))),
      AddTemp("sl", SYNC_PASSWORD_TIME_PASSWORD_CHANGED,
              Ok(InstantV(login.time_password_changed))),
      AddTemp("f", FORM_HOSTNAME, Ok(StrV(login.hostname)))>>
    \o (IF login.username_field # None
        THEN <<AddTemp("f", FORM_USERNAME_FIELD, Ok(login.username_field))>> ELSE <<>>)
    \o (IF login.password_field # None
        THEN <<AddTemp("f", FORM_PASSWORD_FIELD, Ok(login.password_field))>> ELSE <<>>)
    \o (IF login.target.k = "FormSubmitURL"
        THEN <<AddTemp("f", FORM_SUBMIT_URL, Ok(StrV(login.target.v)))>>
        ELSE <<AddTemp("f", FORM_HTTP_REALM, Ok(StrV(login.target.v)))>>)

\* transact_sync_password_metadata: a string on a ref attribute names the
\* tempid.
transact_sync_password_metadata(login, credential_id) ==
    <<AddTemp("c", CREDENTIAL_ID, Ok(StrV(credential_id))),
      AddTemp("sl", SYNC_PASSWORD_UUID, Ok(StrV(login.uuid))),
      AddTemp("sl", SYNC_PASSWORD_CREDENTIAL, Err("c")),
      AddTemp("sl", SYNC_PASSWORD_SERVER_MODIFIED, Ok(InstantV(login.modified))),
      AddTemp("sl", SYNC_PASSWORD_TIMES_USED, Ok(Long(login.times_used))),
      AddTemp("sl", SYNC_PASSWORD_TIME_CREATED, Ok(InstantV(login.time_created))),
      AddTemp("sl", SYNC_PASSWORD_TIME_LAST_USED, Ok(InstantV(login.time_last_used))),
      AddTemp("sl", SYNC_PASSWORD_TIME_PASSWORD_CHANGED,
              Ok(InstantV(login.time_password_changed))),
      AddTemp("f", FORM_SYNC_PASSWORD, Err("sl")),
      AddTemp("f", FORM_HOSTNAME, Ok(StrV(login.hostname)))>>
    \o (IF login.username_field # None
        THEN <<AddTemp("f", FORM_USERNAME_FIELD, Ok(login.username_field))>> ELSE <<>>)
    \o (IF login.password_field # None
        THEN <<AddTemp("f", FORM_PASSWORD_FIELD, Ok(login.password_field))>> ELSE <<>>)
    \o (IF login.target.k = "FormSubmitURL"
        THEN <<AddTemp("f", FORM_SUBMIT_URL, Ok(StrV(login.target.v)))>>
        ELSE <<AddTemp("f", FORM_HTTP_REALM, Ok(StrV(login.target.v)))>>)

\* The instant a transaction was stamped with.
TxInstants(ds, tx) == {v.v : v \in ValuesOf(ds, tx, DB_TX_INSTANT)}

\* credential_deltas: the rows [username, utx, utxi, password, ptx, ptxi] of
\* the credential with that id.
credential_deltas(ds, lg, id) ==
    UNION {UNION {UNION {
        {[username |-> u.v, utx |-> TxOf(lg, <<c, CREDENTIAL_USERNAME, u>>), utxi |-> ui,
          password |-> p.v, ptx |-> TxOf(lg, <<c, CREDENTIAL_PASSWORD, p>>), ptxi |-> pi] :
            ui \in TxInstants(ds, TxOf(lg, <<c, CREDENTIAL_USERNAME, u>>)),
            pi \in TxInstants(ds, TxOf(lg, <<c, CREDENTIAL_PASSWORD, p>>))} :
        p \in ValuesOf(ds, c, CREDENTIAL_PASSWORD)} :
        u \in ValuesOf(ds, c, CREDENTIAL_USERNAME)} :
        c \in EntitiesOf(ds, CREDENTIAL_ID, StrV(id))}

\* merge_into_credential: the terms it adds to the builder for the row x of
\* credential_deltas; tx is what (transaction-tx) is bound to.
merge_into_credential(x, id, modified, username, password, tx) ==
    LET remote_later == modified > x.utxi /\ modified > x.ptxi IN
    <<AddTemp("c", CREDENTIAL_ID, Ok(StrV(id)))>>
    \o (IF remote_later
        THEN <<AddTemp("c", CREDENTIAL_USERNAME, Ok(StrV(username))),
               AddTemp("c", CREDENTIAL_PASSWORD, Ok(StrV(password))),
               AddTemp("sl", SYNC_PASSWORD_CREDENTIAL, Err("c")),
               AddTemp("sl", SYNC_PASSWORD_MATERIAL_TX, Ok(Ref(tx)))>>
        ELSE <<>>)

\* find_credential_id_by_sync_password_uuid, as the set of ids the query
\* finds.
find_credential_id_by_sync_password_uuid(ds, uuid) ==
    {id.v : id \in UNION {ValuesOf(ds, c, CREDENTIAL_ID) :
        c \in {d[3].v : d \in {x \in ds : /\ x[2] = SYNC_PASSWORD_CREDENTIAL
                                          /\ x[1] \in EntitiesOf(ds, SYNC_PASSWORD_UUID,
                                                                 StrV(uuid))}}}}

\* credentials::find_credential_by_content, as the set of ids the query
\* finds.
find_credential_by_content(ds, username, password) ==
    {id.v : id \in UNION {ValuesOf(ds, c, CREDENTIAL_ID) :
        c \in EntitiesOf(ds, CREDENTIAL_USERNAME, StrV(username))
                \cap EntitiesOf(ds, CREDENTIAL_PASSWORD, StrV(password))}}

Builder(terms) == [ok |-> TRUE, err |-> "none", terms |-> terms]
Bail(err) == [ok |-> FALSE, err |-> err, terms |-> <<>>]

\* The builder apply_changed_login hands to the transactor for the
\* credential id it found, by uuid (Left), by content (Right), or not at all.
apply_changed_login_builder(ds, lg, login, found, tx) ==
    IF found.k = "None"
    THEN Builder(
            build_credential([id |-> login.uuid, username |-> login.username,
                              password |-> login.password,
                              created_at |-> login.time_created])
            \o transact_sync_password_metadata(login, login.uuid)
            \o <<AddTemp("c", CREDENTIAL_ID, Ok(StrV(login.uuid))),
                 AddTemp("sl", SYNC_PASSWORD_CREDENTIAL, Err("c")),
                 AddTemp("sl", SYNC_PASSWORD_MATERIAL_TX, Ok(Ref(tx))),
                 AddTemp("sl", SYNC_PASSWORD_METADATA_TX, Ok(Ref(tx)))>>)
    ELSE IF credential_deltas(ds, lg, found.id) = {}
    THEN Bail("BadQueryResultType")
    ELSE LET x == CHOOSE x \in credential_deltas(ds, lg, found.id) : TRUE IN
         Builder(transact_sync_password_metadata(login, found.id)
                 \o merge_into_credential(x, found.id, login.modified, login.username,
                                          login.password, tx))

\* The credential ids apply_changed_login may go on with: the one found by
\* uuid, else one found by content (the query yields any one of them), else
\* none.
FoundCredential(ds, login) ==
    LET by_uuid == find_credential_id_by_sync_password_uuid(ds, login.uuid)
        by_content == find_credential_by_content(ds, login.username, login.password)
    IN IF by_uuid # {} THEN {[k |-> "Left", id |-> id] : id \in by_uuid}
       ELSE IF by_content # {} THEN {[k |-> "Right", id |-> id] : id \in by_content}
       ELSE {[k |-> "None", id |-> 0]}

\* The unique index of the store: <<a, v>> -> e for the unique attributes.
UniqueIndex(ds) ==
    [p \in {<<d[2], d[3]>> : d \in {x \in ds : unique_identity(x[2])}} |->
        (CHOOSE d \in ds : d[2] = p[1] /\ d[3] = p[2])[1]]

\* The fixed point of the upsert resolution against the unique index.
RECURSIVE ResolveUpserts(_, _)
ResolveUpserts(g, index) ==
    IF ~ can_evolve(g) THEN [ok |-> TRUE, gen |-> g]
    ELSE IF ConflictingUpserts(g, index) THEN [ok |-> FALSE, gen |-> g]
    ELSE ResolveUpserts(evolve_one_step(g, resolve_temp_id_avs(g, index)), index)

\* The entids allocated, from n on, for the tempids no upsert resolved, in
\* the order of the tempids.
TempIdOrder == <<"c", "f", "sl">>
TempIdRank(t) == CHOOSE i \in 1..Len(TempIdOrder) : TempIdOrder[i] = t
AllocateTempIds(T, n) ==
    [t \in T |-> n + Cardinality({u \in T : TempIdRank(u) < TempIdRank(t)})]

TxFailed(err, lg, ds, pm) ==
    [ok |-> FALSE, err |-> err, tx |-> pm["tx"].index, log |-> lg, datoms |-> ds,
     partition_map |-> pm]
Rollback(w, lg, ds, pm) == IF w.ok THEN w ELSE TxFailed(w.err, lg, ds, pm)

\* The lowered terms of a builder are transacted, n entids having been
\* allocated for its tempids.
transact_lowered(lowered, n, lg, ds, pm) ==
    IF lowered.panic THEN TxFailed("panic", lg, ds, pm)
    ELSE Rollback(transact_terms({[op |-> IF t.op = "Add" THEN "add" ELSE "retract",
                                   e |-> t.e, a |-> t.a, v |-> t.v] :
                                        t \in Range(lowered.terms)},
                                 lg, ds, allocate(pm, "user", n),
                                 InstantV(pm["tx"].index)),
                  lg, ds, pm)

\* The final generation r.gen is allocated and lowered.
transact_resolved(r, lg, ds, pm) ==
    IF ~ r.ok THEN TxFailed("ConflictingUpserts", lg, ds, pm)
    ELSE transact_lowered(
            into_allocated_iter(r.gen,
                                AllocateTempIds(temp_ids_iter(r.gen), pm["user"].index)),
            Cardinality(temp_ids_iter(r.gen)), lg, ds, pm)

\* InProgress::transact_builder: resolve the tempids, allocate, lower, and
\* transact.  Yields [ok, err, tx, log, datoms, partition_map].
transact_builder(terms, lg, ds, pm) ==
    transact_resolved(
        ResolveUpserts(GenerationFrom(terms, 1, GenerationDefault), UniqueIndex(ds)),
        lg, ds, pm)

\* InProgress::last_tx_id
last_tx_id(pm) == pm["tx"].index - 1

\* get_sync_password: None, or what the two pulls yield for the record with
\* that uuid (the fields derived from the usage log apart).
get_sync_password(ds, uuid) ==
    LET rows == UNION {UNION {
                    {<<c, f>> : f \in EntitiesOf(ds, FORM_SYNC_PASSWORD, Ref(sp))} :
                    c \in {v.v : v \in {w \in ValuesOf(ds, sp, SYNC_PASSWORD_CREDENTIAL) :
                                 \E d \in ds : d[1] = w.v /\ d[2] = CREDENTIAL_ID}}} :
                    sp \in EntitiesOf(ds, SYNC_PASSWORD_UUID, StrV(uuid))}
    IN IF rows = {} THEN None
       ELSE LET row == CHOOSE row \in rows : TRUE IN
            [t |-> "Some", v |-> uuid,
             credential |-> [a \in {CREDENTIAL_ID, CREDENTIAL_USERNAME, CREDENTIAL_PASSWORD,
                                    CREDENTIAL_CREATED_AT} |-> ValuesOf(ds, row[1], a)],
             form |-> [a \in {FORM_HOSTNAME, FORM_USERNAME_FIELD, FORM_PASSWORD_FIELD,
                              FORM_SUBMIT_URL, FORM_HTTP_REALM} |-> ValuesOf(ds, row[2], a)]]

\* get_modified_sync_passwords_to_upload, as the set of the uuids of the
\* records it returns.
get_modified_sync_passwords_to_upload(ds, lg) ==
    {uuid \in {d[3].v : d \in {x \in ds : x[2] = SYNC_PASSWORD_UUID}} :
        /\ \E sp \in EntitiesOf(ds, SYNC_PASSWORD_UUID, StrV(uuid)) :
           \E materialTx \in ValuesOf(ds, sp, SYNC_PASSWORD_MATERIAL_TX) :
           \E d \in ds :
              /\ \/ /\ Ref(d[1]) \in ValuesOf(ds, sp, SYNC_PASSWORD_CREDENTIAL)
                    /\ d[2] \in {CREDENTIAL_ID, CREDENTIAL_USERNAME, CREDENTIAL_PASSWORD}
                 \/ /\ Ref(sp) \in ValuesOf(ds, d[1], FORM_SYNC_PASSWORD)
                    /\ d[2] \in {FORM_HOSTNAME, FORM_USERNAME_FIELD, FORM_PASSWORD_FIELD,
                                 FORM_SUBMIT_URL, FORM_HTTP_REALM}
              /\ TxOf(lg, d) > materialTx.v
        /\ get_sync_password(ds, uuid) # None}

\* Variant of the mark: the transaction before the named one is recorded.
mark_synced_terms_before(ds, U, tx_id) ==
    UNION {{AddEntid(e, SYNC_PASSWORD_MATERIAL_TX, Ref(tx_id - 1)),
            AddEntid(e, SYNC_PASSWORD_METADATA_TX, Ref(tx_id - 1))} :
                e \in UNION {EntitiesOf(ds, SYNC_PASSWORD_UUID, StrV(u)) : u \in U}}

\* mark_synced_by_sync_uuids: the terms its loop adds to the builder.
mark_synced_terms(ds, U, tx_id) ==
    UNION {{AddEntid(e, SYNC_PASSWORD_MATERIAL_TX, Ref(tx_id)),
            AddEntid(e, SYNC_PASSWORD_METADATA_TX, Ref(tx_id))} :
                e \in UNION {EntitiesOf(ds, SYNC_PASSWORD_UUID, StrV(u)) : u \in U}}

\* Variant of the query: one row of the answer only.
delete_query_one_row(ds, uuid) ==
    LET ps == EntitiesOf(ds, SYNC_PASSWORD_UUID, StrV(uuid))
        cs == {v.v : v \in UNION {ValuesOf(ds, p, SYNC_PASSWORD_CREDENTIAL) : p \in ps}}
        es == ps \cup cs
              \cup {d[1] : d \in {x \in ds : x[2] = LOGIN_CREDENTIAL /\ x[3].v \in cs}}
              \cup UNION {EntitiesOf(ds, FORM_SYNC_PASSWORD, Ref(p)) : p \in ps}
        rows == {d \in ds : d[1] \in es}
    IN IF rows = {} THEN {} ELSE {CHOOSE d \in rows : d[2] # SYNC_PASSWORD_UUID}

\* The rows [?e ?a ?v] of the query of delete_by_sync_uuids for one uuid.
delete_query(ds, uuid) ==
    LET ps == EntitiesOf(ds, SYNC_PASSWORD_UUID, StrV(uuid))
        cs == {v.v : v \in UNION {ValuesOf(ds, p, SYNC_PASSWORD_CREDENTIAL) : p \in ps}}
        es == ps \cup cs
              \cup {d[1] : d \in {x \in ds : x[2] = LOGIN_CREDENTIAL /\ x[3].v \in cs}}
              \cup UNION {EntitiesOf(ds, FORM_SYNC_PASSWORD, Ref(p)) : p \in ps}
    IN {d \in ds : d[1] \in es}

LgNoOp == [op |-> "none", arg |-> {}, tx_id |-> 0, ok |-> TRUE, err |-> "none", tx |-> 0,
           prev |-> [op |-> "none", arg |-> {}, ok |-> TRUE]]
LgSummary(l) == [op |-> l.op, arg |-> l.arg, ok |-> l.ok]

\* The password store as a value, and the empty one.
LgStore == [log |-> lg_log, datoms |-> lg_datoms, pm |-> lg_pm, nops |-> lg_nops,
            pre |-> lg_pre, last |-> lg_last]
LgEmpty ==
    [log |-> {}, datoms |-> {},
     pm |-> [p \in {"user", "tx"} |->
                IF p = "user" THEN [start |-> UserStart, index |-> UserStart]
                ELSE [start |-> TxStart, index |-> TxStart]],
     nops |-> 0, pre |-> [log |-> {}, datoms |-> {}], last |-> LgNoOp]

\* The store s after a call whose transaction, if it came to one, ended as w.
LgAfter(s, op, arg, tx_id, w) ==
    [log |-> w.log, datoms |-> w.datoms, pm |-> w.partition_map, nops |-> s.nops + 1,
     pre |-> [log |-> s.log, datoms |-> s.datoms],
     last |-> [op |-> op, arg |-> arg, tx_id |-> tx_id, ok |-> w.ok, err |-> w.err,
               tx |-> w.tx, prev |-> LgSummary(s.last)]]

\* A call on the store s that hands a builder to the transactor, or bails
\* before it does: the store after it.
LgStep(s, op, arg, tx_id, builder) ==
    LgAfter(s, op, arg, tx_id,
            IF builder.ok
            THEN transact_builder(builder.terms, s.log, s.datoms, s.pm)
            ELSE [ok |-> FALSE, err |-> builder.err, tx |-> 0, log |-> s.log,
                  datoms |-> s.datoms, partition_map |-> s.pm])

LgIs(s) ==
    /\ lg_log = s.log
    /\ lg_datoms = s.datoms
    /\ lg_pm = s.pm
    /\ lg_nops = s.nops
    /\ lg_pre = s.pre
    /\ lg_last = s.last

LgInit == LgIs(LgEmpty)

LgBecomes(s) ==
    /\ lg_log' = s.log
    /\ lg_datoms' = s.datoms
    /\ lg_pm' = s.pm
    /\ lg_nops' = s.nops
    /\ lg_pre' = s.pre
    /\ lg_last' = s.last

LgCall(op, arg, tx_id, builder) == LgBecomes(LgStep(LgStore, op, arg, tx_id, builder))

\* apply_changed_login on the store s, for the credential id it found.
apply_changed_login_to(s, login, found) ==
    LgStep(s, "apply", {login}, 0,
           apply_changed_login_builder(s.datoms, s.log, login, found, s.pm["tx"].index))

\* The stores a run starts from: the empty one, and those the server's
\* records for one or two uuids were applied to; the calls are counted from
\* there.
NotFound == [k |-> "None", id |-> 0]
Uncounted(s) == [s EXCEPT !.nops = 0]
DownloadedNext(s, login) == {Uncounted(s), Uncounted(apply_changed_login_to(s, login, NotFound))}
Downloaded(login1, login2) ==
    DownloadedNext(apply_changed_login_to(LgEmpty, login1, NotFound), login2)
StartingStores ==
    {LgEmpty} \cup UNION {Downloaded(ServerPassword(1, 8, m), ServerPassword(2, 9, m)) :
                             m \in Modifieds}

apply_changed_login(login) ==
    \E found \in FoundCredential(lg_datoms, login) :
        LgCall("apply", {login}, 0,
               apply_changed_login_builder(lg_datoms, lg_log, login, found,
                                           lg_pm["tx"].index))

mark_synced_by_sync_uuids(U, tx_id) ==
    LgCall("mark", U, tx_id,
           IF \E u \in U : EntitiesOf(lg_datoms, SYNC_PASSWORD_UUID, StrV(u)) = {}
           THEN Bail("BadQueryResultType")
           ELSE Builder(SetToSeq(mark_synced_terms(lg_datoms, U, tx_id))))

delete_by_sync_uuids(U) ==
    LgCall("delete", U, 0,
           Builder(SetToSeq({RetractEntid(d[1], d[2], d[3]) :
                                d \in UNION {delete_query(lg_datoms, u) : u \in U}})))

reset_client ==
    LgCall("reset", {}, 0,
           Builder(SetToSeq(UNION {{AddEntid(e, SYNC_PASSWORD_MATERIAL_TX, Ref(0)),
                                    AddEntid(e, SYNC_PASSWORD_METADATA_TX, Ref(0))} :
                        e \in {d[1] : d \in {x \in lg_datoms : x[2] = SYNC_PASSWORD_UUID}}})))

\* A local edit of a credential, named by a lookup ref on :credential/id.
edit_credential(id, username, password) ==
    LgCall("edit", {id}, 0,
           IF EntitiesOf(lg_datoms, CREDENTIAL_ID, StrV(id)) = {}
           THEN Bail("UnrecognizedEntid")
           ELSE LET e == CHOOSE e \in EntitiesOf(lg_datoms, CREDENTIAL_ID, StrV(id)) : TRUE
                IN Builder(<<AddEntid(e, CREDENTIAL_USERNAME, StrV(username)),
                             AddEntid(e, CREDENTIAL_PASSWORD, StrV(password))>>))

(***************************************************************************)
(* Specifications                                                          *)
(***************************************************************************)
StIdle == StInit
MetaIdle ==
    /\ schema_map = <<>>
    /\ entid_map = <<>>
    /\ ident_map = <<>>
    /\ meta_pre = <<>>
    /\ meta_last = [called |-> FALSE, ok |-> TRUE, assertions |-> <<>>,
                    installed |-> {}, altered |-> <<>>, err |-> "none"]
UpIdle ==
    /\ up_input = <<>>
    /\ avs = <<>>
    /\ gen = GenerationDefault
    /\ up_prev = GenerationDefault
    /\ up_map = <<>>
    /\ up_pc = "evolving"
    /\ up_out = <<>>
TlIdle == TlInit
DmIdle ==
    /\ dm_rows = <<>>
    /\ dm_datoms = <<>>
    /\ dm_view = <<>>
    /\ dm_pc = "rows"
CcIdle == CcInit
LgIdle == LgInit

\* The store registry.
Open == (\E name \in Names, path \in Paths : open(name, path))
            /\ UNCHANGED <<meta_vars, up_vars, tl_vars, dm_vars, cc_vars, lg_vars>>
Get == (\E name \in Names : get(name)) /\ UNCHANGED <<meta_vars, up_vars, tl_vars, dm_vars, cc_vars, lg_vars>>
Connect == (\E name \in Names : connect(name)) /\ UNCHANGED <<meta_vars, up_vars, tl_vars, dm_vars, cc_vars, lg_vars>>
Close == (\E name \in Names : close(name)) /\ UNCHANGED <<meta_vars, up_vars, tl_vars, dm_vars, cc_vars, lg_vars>>
DropStore == (\E c \in ConnIds : drop_store(c)) /\ UNCHANGED <<meta_vars, up_vars, tl_vars, dm_vars, cc_vars, lg_vars>>

StoresInit == StInit /\ MetaIdle /\ UpIdle /\ TlIdle /\ DmIdle /\ CcIdle /\ LgIdle
StoresNext == Open \/ Get \/ Connect \/ Close \/ DropStore
StoresSpec == StoresInit /\ [][StoresNext]_vars

\* Threads opening stores side by side.
OpenBegin ==
    /\ \E t \in Threads, name \in Names, path \in Paths : open_begin(t, name, path)
    /\ UNCHANGED <<meta_vars, up_vars, tl_vars, dm_vars, lg_vars>>
WriteLock ==
    (\E t \in Threads : write_lock(t)) /\ UNCHANGED <<meta_vars, up_vars, tl_vars, dm_vars, lg_vars>>
OpenLookup ==
    (\E t \in Threads : open_lookup(t)) /\ UNCHANGED <<meta_vars, up_vars, tl_vars, dm_vars, lg_vars>>
OpenFinish ==
    (\E t \in Threads : open_finish(t)) /\ UNCHANGED <<meta_vars, up_vars, tl_vars, dm_vars, lg_vars>>
DropReturned ==
    (\E t \in Threads : drop_returned(t)) /\ UNCHANGED <<meta_vars, up_vars, tl_vars, dm_vars, lg_vars>>

ConcInit == StInit /\ CcInit /\ MetaIdle /\ UpIdle /\ TlIdle /\ DmIdle /\ LgIdle
ConcNext == OpenBegin \/ WriteLock \/ OpenLookup \/ OpenFinish \/ DropReturned
ConcSpec == ConcInit /\ [][ConcNext]_vars

\* The metadata mutator.
UpdateSchema == UpdateSchemaMap /\ UNCHANGED <<st_vars, up_vars, tl_vars, dm_vars, cc_vars, lg_vars>>

MetadataInit == MetaInit /\ StIdle /\ UpIdle /\ TlIdle /\ DmIdle /\ CcIdle /\ LgIdle
MetadataNext == UpdateSchema
MetadataSpec == MetadataInit /\ [][MetadataNext]_vars

\* The upsert resolution.
EvolveStep == Evolve /\ UNCHANGED <<st_vars, meta_vars, tl_vars, dm_vars, cc_vars, lg_vars>>
LowerStep == Lower /\ UNCHANGED <<st_vars, meta_vars, tl_vars, dm_vars, cc_vars, lg_vars>>

UpsertInit == UpInit /\ StIdle /\ MetaIdle /\ TlIdle /\ DmIdle /\ CcIdle /\ LgIdle
UpsertNext == EvolveStep \/ LowerStep
UpsertSpec == UpsertInit /\ [][UpsertNext]_vars
\* The driver loops `while can_evolve` and then lowers, without waiting.
UpsertFairSpec == UpsertSpec /\ WF_vars(UpsertNext)

\* The transactor and the timelines.
Transact ==
    /\ nops < MaxOps
    /\ \E batch \in SubsetsUpTo(UserTerms, MaxBatch) : transact(batch)
    /\ UNCHANGED <<st_vars, meta_vars, up_vars, dm_vars, cc_vars, lg_vars>>

Rewind ==
    /\ nops < MaxOps
    /\ \E tx_ids \in SUBSET TxIdPool, new_timeline \in TimelineChoices :
            move_from_main_timeline(tx_ids, new_timeline)
    /\ UNCHANGED <<st_vars, meta_vars, up_vars, dm_vars, cc_vars, lg_vars>>

TimelineInit == TlInit /\ StIdle /\ MetaIdle /\ UpIdle /\ DmIdle /\ CcIdle /\ LgIdle
TimelineNext == Transact \/ Rewind
TimelineSpec == TimelineInit /\ [][TimelineNext]_vars

\* Operations after a first rewind.
TransactAgain ==
    /\ nops < RepeatOps
    /\ \E batch \in SubsetsUpTo(UserTerms, MaxBatch) : transact(batch)
    /\ UNCHANGED <<st_vars, meta_vars, up_vars, dm_vars, cc_vars, lg_vars>>

RewindAgain ==
    /\ nops < RepeatOps
    /\ \E tx_ids \in SUBSET TxIdPool, new_timeline \in TimelineChoices :
            move_from_main_timeline(tx_ids, new_timeline)
    /\ UNCHANGED <<st_vars, meta_vars, up_vars, dm_vars, cc_vars, lg_vars>>

RepeatInit == RewoundOnce /\ StIdle /\ MetaIdle /\ UpIdle /\ DmIdle /\ CcIdle /\ LgIdle
RepeatNext == TransactAgain \/ RewindAgain
RepeatSpec == RepeatInit /\ [][RepeatNext]_vars

\* The datoms and transactions views.
SortDatoms == DatomsNew /\ UNCHANGED <<st_vars, meta_vars, up_vars, tl_vars, cc_vars, lg_vars>>
ReadTransactions == transactions_after /\ UNCHANGED <<st_vars, meta_vars, up_vars, tl_vars, cc_vars, lg_vars>>

DatomInit == DmInit /\ StIdle /\ MetaIdle /\ UpIdle /\ TlIdle /\ CcIdle /\ LgIdle
DatomNext == SortDatoms \/ ReadTransactions
DatomSpec == DatomInit /\ [][DatomNext]_vars


\* The password store.
LgActive == lg_nops < MaxLoginOps
ApplyChangedLogin ==
    /\ LgActive
    /\ \E login \in ServerPasswords : apply_changed_login(login)
    /\ UNCHANGED <<st_vars, meta_vars, up_vars, tl_vars, dm_vars, cc_vars>>
MarkSynced ==
    /\ LgActive
    /\ \E U \in SUBSET Uuids \ {{}}, tx_id \in {0, last_tx_id(lg_pm)} :
            mark_synced_by_sync_uuids(U, tx_id)
    /\ UNCHANGED <<st_vars, meta_vars, up_vars, tl_vars, dm_vars, cc_vars>>
DeleteBySyncUuids ==
    /\ LgActive
    /\ \E U \in SUBSET Uuids \ {{}} : delete_by_sync_uuids(U)
    /\ UNCHANGED <<st_vars, meta_vars, up_vars, tl_vars, dm_vars, cc_vars>>
ResetClient ==
    /\ LgActive
    /\ reset_client
    /\ UNCHANGED <<st_vars, meta_vars, up_vars, tl_vars, dm_vars, cc_vars>>
EditCredential ==
    /\ LgActive
    /\ \E id \in Uuids, username \in Usernames, password \in Passwords :
            edit_credential(id, username, password)
    /\ UNCHANGED <<st_vars, meta_vars, up_vars, tl_vars, dm_vars, cc_vars>>

LoginInit == (\E s \in StartingStores : LgIs(s)) /\ StIdle /\ MetaIdle /\ UpIdle /\ TlIdle /\ DmIdle /\ CcIdle
LoginNext == ApplyChangedLogin \/ MarkSynced \/ DeleteBySyncUuids \/ ResetClient
                \/ EditCredential
LoginSpec == LoginInit /\ [][LoginNext]_vars

\* All subsystems side by side.
Init == StInit /\ MetaIdle /\ UpIdle /\ TlInit /\ DmIdle /\ CcIdle /\ LgIdle
Next == StoresNext \/ TimelineNext
Spec == Init /\ [][Next]_vars


(***************************************************************************)
(* Properties                                                              *)
(***************************************************************************)
RewindOk == tl_last.op = "rewind" /\ tl_last.ok
TransactOk == tl_last.op = "transact" /\ tl_last.ok

\* The last operation rewound exactly the transaction T transacted just before.
RewoundLastTx ==
    /\ RewindOk
    /\ tl_last.prev.op = "transact" /\ tl_last.prev.ok
    /\ tl_last.tx_ids = {tl_last.prev.tx}

\* C1: transacting T and then rewinding {T} leaves the datoms of the store
\* equal to those before T.
C1_RewindIsInverse ==
    RewoundLastTx => datoms = snap[tl_last.prev.tx].datoms

\* The last operation rewound {T1, T2}, T2 transacted just before it and
\* right after T1.
RewoundLastTwo ==
    /\ RewindOk
    /\ tl_last.prev.op = "transact" /\ tl_last.prev.ok
    /\ tl_last.tx_ids = {tl_last.prev.tx - 1, tl_last.prev.tx}
    /\ tl_last.prev.tx - 1 \in DOMAIN snap
    /\ snap[tl_last.prev.tx].partition_map["tx"].index = tl_last.prev.tx
    /\ tl_last.prev.tx - 1 \in snap[tl_last.prev.tx].since["tx"]

\* C2: after T1, T2 and a rewind of [T1, T2] the user partition's index is
\* the one before T1.
C2_RewindRestoresUserIndex ==
    RewoundLastTwo =>
        partition_map["user"].index =
            snap[tl_last.prev.tx - 1].partition_map["user"].index

\* C3: when update_schema_map_from_entid_triples fails, the schema map is as
\* it was before the call.
C3_FailureLeavesSchemaMap ==
    (meta_last.called /\ ~ meta_last.ok) => schema_map = meta_pre

\* C4: at most one live Conn exists for any store name.
C4_OneConnPerName ==
    \A name \in Names :
        Cardinality({c \in ConnIds : strong[c] > 0 /\ conn_name[c] = name}) <= 1

\* C5 as stated: every successful transaction receives a tx id greater than
\* all tx ids issued before, rewinds included.
C5_TxIdsStrictlyMonotonic ==
    TransactOk => \A t \in tl_pre.issued_tx : tl_last.tx > t

\* C5 as amended: a successful transaction receives a tx id greater than
\* those of all transactions committed since the last successful rewind, and
\* a successful rewind sets the tx partition's index back to min(tx_ids).
C5_TxIdsMonotonicBetweenRewinds ==
    /\ TransactOk => \A t \in tl_pre.since["tx"] : tl_last.tx > t
    /\ RewindOk => partition_map["tx"].index = Min(tl_last.tx_ids)

\* A transaction committed after a rewind and got the tx id of a rewound one.
C5_Witness ==
    /\ TransactOk
    /\ tl_last.prev.op = "rewind" /\ tl_last.prev.ok
    /\ tl_last.tx \in tl_pre.issued_tx

\* C6 as stated: an entid allocated at transact time is never returned by a
\* later allocation, rewinds included.
C6_EntidNeverReused ==
    TransactOk => tl_last.new_e \cap tl_pre.allocated = {}

\* C6 as amended: an entid allocated from the user partition is not returned
\* again by a later allocation unless a successful rewind came in between; a
\* successful rewind sets the user partition's index to the entity of the
\* last row of its inverse batch.
C6_EntidNotReusedBetweenRewinds ==
    /\ TransactOk => tl_last.new_e \cap tl_pre.since["user"] = {}
    /\ RewindOk => partition_map["user"].index = tl_last.lowest_e

\* A transaction after a rewind was handed an entid allocated before it.
C6_Witness ==
    /\ TransactOk
    /\ tl_last.new_e # {}
    /\ tl_last.new_e \subseteq tl_pre.allocated

\* C7: a failed rewind leaves the datoms, the log with its timeline labels
\* and the partition map as they were.
C7_FailedRewindRollsBack ==
    (tl_last.op = "rewind" /\ ~ tl_last.ok) =>
        /\ log = tl_pre.log
        /\ datoms = tl_pre.datoms
        /\ partition_map = tl_pre.partition_map

\* C8: a unique/identity [add t1 a t2] demoted to an allocation becomes an
\* UpsertE in the step that resolves t2 but not t1.
C8_DemotedUpsertCascades ==
    up_pc = "evolving" =>
        \A i \in 1..Len(up_prev["allocations_ev"]) :
            LET term == up_prev["allocations_ev"][i] IN
            (/\ term.op = "Add" /\ unique_identity(term.a)
             /\ term.v.tmp \in DOMAIN up_map
             /\ term.e.tmp \notin DOMAIN up_map)
                => \E j \in 1..Len(gen["upserts_e"]) :
                      gen["upserts_e"][j] = [term EXCEPT !.v = Ok(Ref(up_map[term.v.tmp]))]

\* C9: a term with a tempid is never classified as Inert.
C9_TempIdTermsNotInert ==
    \A i \in 1..Len(up_input) :
        HasTempId(up_input[i]) => population_type(up_input[i]) # "Inert"

\* A term without tempids, as a TermWithoutTempIds.
Unwrapped(term) ==
    CASE term.k = "AddOrRetract" -> Lowered(term.op, term.e.val, term.a, term.v.val)
      [] term.k = "RetractAttribute" -> [k |-> term.k, e |-> term.e.val, a |-> term.a]
      [] term.k = "RetractEntity" -> [k |-> term.k, e |-> term.e.val]

Occurrences(seq, x) == Cardinality({i \in 1..Len(seq) : seq[i] = x})

\* C10: once the batch is lowered, every input term without tempids is in
\* the output exactly once and unchanged.
C10_InertPassesThrough ==
    up_pc \in {"lowered", "panicked"} =>
        \A i \in 1..Len(up_input) :
            ~ HasTempId(up_input[i]) =>
                /\ up_pc = "lowered"
                /\ Occurrences(up_out, Unwrapped(up_input[i])) = 1

\* An evolve step that did not end in a conflict.
Evolved == up_pc = "evolving" /\ up_pc' = "evolving" /\ up_prev' = gen

PromotedUpsertEV(g, m) ==
    {i \in 1..Len(g["upserts_ev"]) : EvolveTerm("upserts_ev", g["upserts_ev"][i], m).dest = "upserts_e"}

\* C11: after finitely many evolve steps the generation has no UpsertE terms
\* (or the batch has failed with ConflictingUpserts), and each step has fewer
\* UpsertE terms after it than before it or promotes an UpsertEV term.
C11_UpsertTerminates ==
    /\ <>(~ can_evolve(gen) \/ up_pc = "conflict")
    /\ [][Evolved =>
            \/ Len(gen'["upserts_e"]) < Len(gen["upserts_e"])
            \/ PromotedUpsertEV(gen, up_map') # {}]_vars

\* Two evolve steps were needed: the first promoted an UpsertEV term, the
\* second left no UpsertE.
C11_Witness ==
    /\ up_pc = "evolving"
    /\ up_prev["upserts_e"] # <<>>
    /\ up_prev["upserts_ev"] = <<>>
    /\ up_prev["upserted"] # <<>>
    /\ gen["upserts_e"] = <<>>
    /\ \E i \in 1..Len(up_prev["upserts_e"]) : up_prev["upserts_e"][i].v.val.t = "Ref"

\* The (tempid, entid) pairs the unique index gives the UpsertE terms.
UpsertEResolutions ==
    {<<gen["upserts_e"][i].e.tmp, avs[<<gen["upserts_e"][i].a, gen["upserts_e"][i].v.val>>]>> :
        i \in {j \in 1..Len(gen["upserts_e"]) :
                 <<gen["upserts_e"][j].a, gen["upserts_e"][j].v.val>> \in DOMAIN avs}}

OneTempIdTwoEntids == \E p, q \in UpsertEResolutions : p[1] = q[1] /\ p[2] # q[2]
TwoTempIdsOneEntid == \E p, q \in UpsertEResolutions : p[1] # q[1] /\ p[2] = q[2]

UsesTempId(term, t) ==
    \/ ~ term.e.ok /\ term.e.tmp = t
    \/ term.k = "AddOrRetract" /\ ~ term.v.ok /\ term.v.tmp = t

\* The lowered term o is the add or retract `term` with entid n in the
\* places of tempid t.
EmittedWith(o, term, t, n) ==
    /\ o.op = term.op
    /\ o.a = term.a
    /\ IF term.e.ok THEN o.e = term.e.val ELSE (term.e.tmp = t => o.e = n)
    /\ IF term.v.ok THEN o.v = term.v.val ELSE (term.v.tmp = t => o.v = Ref(n))

\* C13, on batches of adds and retracts: when an UpsertE term of the batch
\* matches a datom of the unique index, its tempid is not allocated an entid,
\* and every other term of the batch that uses the tempid and is not an
\* upsert itself is emitted with the matched entid in its place.
C13_SimpleUpsert ==
    (/\ up_pc \in {"lowered", "panicked"}
     /\ \A j \in 1..Len(up_input) : up_input[j].k = "AddOrRetract") =>
        \A i \in 1..Len(up_input) :
            LET u == up_input[i] IN
            (population_type(u) = "UpsertsE" /\ <<u.a, u.v.val>> \in DOMAIN avs) =>
                /\ u.e.tmp \notin DOMAIN up_map
                /\ \A j \in 1..Len(up_input) :
                      (/\ j # i
                       /\ population_type(up_input[j]) \notin {"UpsertsE", "UpsertsEV"}
                       /\ UsesTempId(up_input[j], u.e.tmp))
                        => /\ up_pc = "lowered"
                           /\ \E k \in 1..Len(up_out) :
                                 EmittedWith(up_out[k], up_input[j], u.e.tmp,
                                             avs[<<u.a, u.v.val>>])

\* The last operation was a rewind to another timeline with tx_ids supplied,
\* in which no storage call failed.
RewindChecked ==
    /\ tl_last.op = "rewind"
    /\ tl_last.fail_at = "none"
    /\ tl_last.new_timeline # MAIN_TIMELINE
    /\ tl_last.tx_ids # {}

\* The transactions of the main timeline at or after m, before the last operation.
MainTail(m) == {r.tx : r \in {q \in tl_pre.log : q.timeline = MAIN_TIMELINE /\ q.tx >= m}}

\* The transactions logged on any timeline at or after m, before the last operation.
LoggedFrom(m) == {r.tx : r \in {q \in tl_pre.log : q.tx >= m}}

\* C14, when the log holds a transaction at or after min(tx_ids): a rewind
\* whose tx_ids is not exactly the tail of the main timeline from min(tx_ids)
\* fails with TimelinesNotOnTail.
C14_NotExactTailFails ==
    (/\ RewindChecked
     /\ LoggedFrom(Min(tl_last.tx_ids)) # {}
     /\ tl_last.tx_ids # MainTail(Min(tl_last.tx_ids))) =>
        (~ tl_last.ok /\ tl_last.err = "TimelinesNotOnTail")

\* Some transaction of tx_ids had rows on another timeline before the last operation.
OffMain == \E r \in tl_pre.log : r.tx \in tl_last.tx_ids /\ r.timeline # MAIN_TIMELINE

RewoundTransactions ==
    {t \in tl_last.tx_ids \cap tl_pre.issued_tx : \E r \in tl_pre.log : r.tx = t}

InverseBatchEntities ==
    {t.e : t \in filtered_reversed_terms(
                    reversed_terms_after(tl_pre.log, Min(tl_last.tx_ids) - 1))}

\* C17: after a successful rewind the user partition's index is the smallest
\* entid among the entities of the inverse batch.
C17_UserIndexIsSmallestEntid ==
    (RewindOk /\ InverseBatchEntities # {}) =>
        partition_map["user"].index = Min(InverseBatchEntities)


\* C18: in every reachable state, rewinds included, each partition has
\* start <= index; a rewind never sets an index below the partition's start.
C18_StartAtMostIndex ==
    /\ \A p \in DOMAIN partition_map : partition_map[p].start <= partition_map[p].index
    /\ RewindOk => /\ tl_pre.partition_map["user"].start <= tl_last.lowest_e
                   /\ tl_pre.partition_map["tx"].start <= Min(tl_last.tx_ids)

\* The entids the last schema batch touched, and whether the batch asserts
\* :db/valueType on one of them.
TouchedEntids == {meta_last.assertions[i][1] : i \in 1..Len(meta_last.assertions)}
SetsValueType(e) ==
    \E i \in 1..Len(meta_last.assertions) :
        meta_last.assertions[i][1] = e /\ meta_last.assertions[i][2] = DB_VALUE_TYPE

C20_ReservedAttributesRecognized ==
    (/\ meta_last.called
     /\ \A i \in 1..Len(meta_last.assertions) : MetaTripleOk(meta_last.assertions[i]))
        => meta_last.err # "DoNotRecognize"

\* C21: on success the report partitions the touched entids: those absent
\* from the original schema map are exactly attributes_installed, those
\* present in it are exactly the keys of attributes_altered, and the two sets
\* are disjoint.
C21_ReportPartitionsTouched ==
    (meta_last.called /\ meta_last.ok) =>
        /\ meta_last.installed = TouchedEntids \ DOMAIN meta_pre
        /\ DOMAIN meta_last.altered = TouchedEntids \cap DOMAIN meta_pre
        /\ meta_last.installed \cap DOMAIN meta_last.altered = {}

\* A successful batch installs one attribute and alters another.
C21_Witness ==
    /\ meta_last.called /\ meta_last.ok
    /\ meta_last.installed # {}
    /\ DOMAIN meta_last.altered # {}

\* C22: after every successful transaction the key-set of schema_map equals
\* the value-set of ident_map (the key-set of entid_map): no attribute is
\* installed for an entid that has no ident.
C22_SchemaKeysAreNamed ==
    (meta_last.called /\ meta_last.ok) =>
        /\ DOMAIN schema_map = Range(ident_map)
        /\ DOMAIN schema_map = DOMAIN entid_map

ViewKey(d) == <<d.tx, d.e, d.a, value_type_tag(d.v.t), d.v.v>>

\* s comes before t, or equals it, in the lexicographic order of tuples.
LexLeq(s, t) ==
    \/ s = t
    \/ \E k \in 1..Len(s) : s[k] < t[k] /\ \A m \in 1..(k - 1) : s[m] = t[m]

OneTransaction(s) ==
    /\ s # <<>>
    /\ \A i \in 1..Len(s) : s[i].tx = s[1].tx
    /\ \/ \A i \in 1..Len(s) : s[i].added # "None"
       \/ \A i \in 1..Len(s) : s[i].added = "None"

\* C25: the canonical order is deterministic: every rearrangement of the
\* datoms of one committed transaction is sorted to the same sequence.
C25_SortIsDeterministic ==
    (dm_pc = "sorted" /\ OneTransaction(dm_rows)) =>
        \A q \in Perms(dm_rows) : sort_unstable_by(q) = {dm_datoms}

\* Three datoms of one transaction, among them a retraction and an assertion
\* of the same (e, a, v), were handed over unsorted.
C25_Witness ==
    /\ dm_pc = "sorted" /\ OneTransaction(dm_rows)
    /\ Len(dm_rows) = MaxDatoms
    /\ dm_datoms # dm_rows
    /\ \E i, j \in 1..Len(dm_rows) :
          ViewKey(dm_rows[i]) = ViewKey(dm_rows[j]) /\ dm_rows[i].added # dm_rows[j].added

\* The step is the call close(name).
CloseCalled(name) == st_last'.op = "close" /\ st_last'.name = name /\ close(name)

\* C26: close(name) fails with StoreConnectionStillActive and leaves the name
\* registered whenever more than one live Store shares the Conn registered
\* under the name.
C26_CloseRefusedWhileShared ==
    [][\A name \in Names :
        (CloseCalled(name) /\ is_open(name) /\ strong[connections[name].conn] > 1)
            => /\ st_last'.result = "StoreConnectionStillActive"
               /\ connections' = connections]_vars

\* A close was refused while two Stores held the registered Conn.
C26_Witness ==
    /\ st_last.op = "close" /\ st_last.result = "StoreConnectionStillActive"
    /\ is_open(st_last.name)
    /\ connections[st_last.name].conn = st_last.conn
    /\ strong[st_last.conn] = 2

\* The live Store handles obtained for a name through open, get or connect:
\* each holds one strong reference to a Conn made for that name.
RECURSIVE HandlesOn(_, _)
HandlesOn(name, S) ==
    IF S = {} THEN 0
    ELSE LET c == CHOOSE c \in S : TRUE IN
         (IF conn_name[c] = name THEN strong[c] ELSE 0) + HandlesOn(name, S \ {c})
HandlesFor(name) == HandlesOn(name, ConnIds)

\* C27: the registry keeps no strong reference: the strong count of a
\* registered Conn equals the number of live Store handles obtained for its
\* name through open, get or connect.
C27_StrongCountIsHandles ==
    \A name \in DOMAIN connections :
        strong[connections[name].conn] = HandlesFor(name)

\* C28: open(name, path) on a registered name fails with StorePathMismatch
\* when the path differs from the registered one, and the name stays
\* registered with its original path; with the same path it returns a Store
\* sharing the Conn of the name.
C28_OpenRegisteredName ==
    [][\A name \in Names, path \in Paths :
        (open(name, path) /\ is_open(name)) =>
            IF connections[name].path # path
            THEN /\ st_last'.result = "StorePathMismatch"
                 /\ is_open(name)'
                 /\ connections'[name].path = connections[name].path
                 /\ strong' = strong
            ELSE /\ st_last'.result = "ok"
                 /\ connections'[name].conn = st_last'.conn
                 /\ connections'[name].path = path
                 /\ Upgrade(connections[name].conn) => st_last'.conn = connections[name].conn
                 /\ strong'[st_last'.conn] = strong[st_last'.conn] + 1]_vars

\* An open with another path was refused for a name whose Conn two Stores
\* share.
C28_Witness ==
    /\ st_last.op = "open" /\ st_last.result = "StorePathMismatch"
    /\ is_open(st_last.name)
    /\ strong[connections[st_last.name].conn] = 2

\* C29: after close(name) succeeds the name is unregistered; only an open
\* registers it again, and until then get(name) returns None and
\* connect(name) fails with StoreNotFound.
C29_ClosedNameIsGone ==
    [][\A name \in Names :
        /\ (CloseCalled(name) /\ st_last'.result = "ok") => ~ is_open(name)'
        /\ (~ is_open(name) /\ is_open(name)') => (st_last'.op = "open" /\ st_last'.name = name)
        /\ (~ is_open(name) /\ get(name)) => (st_last'.result = "None" /\ ~ is_open(name)')
        /\ (~ is_open(name) /\ connect(name))
              => (st_last'.result = "StoreNotFound" /\ ~ is_open(name)')]_vars

\* After a successful close of a name whose Store is still held, a connect
\* to the name failed with StoreNotFound.
C29_Witness ==
    /\ st_last.op = "connect" /\ st_last.result = "StoreNotFound"
    /\ ~ is_open(st_last.name)
    /\ \E c \in ConnIds : conn_name[c] = st_last.name /\ strong[c] > 0

\* Every Store obtained for the registered name has been dropped, and the
\* name was not closed.
AllStoresDropped(name) == is_open(name) /\ HandlesFor(name) = 0

\* The step handed out a Store on a Conn re-created for the recorded path,
\* and the name stays registered with that path.
ReCreated(name) ==
    /\ st_last'.result = "ok"
    /\ st_last'.conn = next_conn /\ next_conn' = next_conn + 1
    /\ strong'[st_last'.conn] = 1
    /\ is_open(name)'
    /\ connections'[name] = [conn |-> st_last'.conn, path |-> connections[name].path]

\* C30 as stated: when every Store of a registered name has been dropped
\* without close, a later open, get or connect of the name succeeds by
\* re-creating a Conn for the recorded path, and the name stays registered.
C30_DroppedNameReopens ==
    [][\A name \in Names :
        AllStoresDropped(name) =>
            /\ get(name) => ReCreated(name)
            /\ connect(name) => ReCreated(name)
            /\ \A path \in Paths : open(name, path) => ReCreated(name)]_vars

\* C30, amended: get, connect and an open with the recorded path succeed by
\* re-creating a Conn for the recorded path; an open with another path fails
\* with StorePathMismatch and hands out no Store; the name stays registered
\* with its path in every case.
C30_DroppedNameReopensOnItsPath ==
    [][\A name \in Names :
        AllStoresDropped(name) =>
            /\ get(name) => ReCreated(name)
            /\ connect(name) => ReCreated(name)
            /\ \A path \in Paths :
                  open(name, path) =>
                      IF path = connections[name].path THEN ReCreated(name)
                      ELSE /\ st_last'.result = "StorePathMismatch"
                           /\ strong' = strong
                           /\ is_open(name)'
                           /\ connections'[name].path = connections[name].path]_vars

\* A get handed out a Store on a Conn that it made itself: an earlier Conn
\* of the name is dead and the new one has this Store alone.
C30_Witness ==
    /\ st_last.op = "get" /\ st_last.result = "ok"
    /\ st_last.conn = next_conn - 1
    /\ strong[st_last.conn] = 1
    /\ \E c \in ConnIds : c < st_last.conn /\ conn_name[c] = st_last.name /\ strong[c] = 0

\* The number of terms over all populations of a generation.
RECURSIVE CountTerms(_, _)
CountTerms(g, P) ==
    IF P = {} THEN 0
    ELSE LET p == CHOOSE p \in P : TRUE IN Len(g[p]) + CountTerms(g, P \ {p})
TotalTerms(g) == CountTerms(g, Populations)

\* C35: evolve_one_step conserves terms: the next generation holds as many
\* terms as the current one, and what an earlier step placed in `resolved`
\* or `upserted` is still there after the step.
C35_EvolveConservesTerms ==
    [][Evolved => /\ TotalTerms(gen') = TotalTerms(gen)
                  /\ \A i \in 1..Len(gen["resolved"]) :
                        \E j \in 1..Len(gen'["resolved"]) : gen'["resolved"][j] = gen["resolved"][i]
                  /\ \A i \in 1..Len(gen["upserted"]) :
                        \E j \in 1..Len(gen'["upserted"]) : gen'["upserted"][j] = gen["upserted"][i]]_vars

\* C36: lowering never panics: once can_evolve is false and the tempid map
\* holds every tempid of temp_ids_iter, into_allocated_iter runs to its end
\* and emits only terms free of tempids.
C36_LoweringNeverPanics ==
    /\ up_pc # "panicked"
    /\ up_pc = "lowered" =>
          \A i \in 1..Len(up_out) : up_out[i].k = "AddOrRetract" /\ up_out[i].e \in Int

\* The last operation is a rewind, after an earlier successful one, of exactly
\* the transactions made since that one, to a timeline that is neither main
\* nor in use, and no storage call failed under it.
RepeatedRewind ==
    /\ tl_last.op = "rewind"
    /\ tl_last.err # "StorageError"
    /\ \E r \in tl_pre.log : r.timeline # MAIN_TIMELINE
    /\ tl_last.tx_ids # {}
    /\ tl_last.tx_ids = tl_pre.since["tx"]
    /\ tl_last.new_timeline \notin {MAIN_TIMELINE} \cup {r.timeline : r \in tl_pre.log}

\* C37: rewind can be repeated: after a successful rewind of a tail block to
\* one timeline and new successful transactions, the rewind of the new tail
\* block to another non-main timeline succeeds.
C37_RewindCanBeRepeated == RepeatedRewind => tl_last.ok

\* The errors of the checks move_from_main_timeline makes before it reads
\* the inverse batch.
PrecheckErrors ==
    {"NotYetImplemented", "TimelinesNoTransactionsSupplied",
     "TimelinesInvalidTransactionIds", "TimelinesNotOnTail", "TimelinesMixed",
     "TimelinesNotOnMain"}
PrechecksPassed == tl_last.op = "rewind" /\ tl_last.err \notin PrecheckErrors

\* C40: whenever the precondition checks of move_from_main_timeline pass, the
\* inverse batch read from the main timeline is not empty, so the
\* unreachable!() of the lowest-entid computation is not executed.
C40_InverseBatchNonEmpty ==
    PrechecksPassed =>
        /\ reversed_terms_after(tl_pre.log, Min(tl_last.tx_ids) - 1) # {}
        /\ tl_last.err # "unreachable"
\* The checks passed on a block of two transactions and the rewind went through.
C40_Witness ==
    PrechecksPassed /\ tl_last.ok /\ Cardinality(tl_last.tx_ids) = 2

\* C38: an install whose :db/valueType names any value type of the closed
\* set {Ref, Boolean, Long, Double, String, Keyword, Instant, Uuid} is
\* accepted and installs an attribute of that value type.  The batch holds
\* that one assertion, on an entid without a prior attribute.
C38_InstallAcceptsEveryValueType ==
    (/\ meta_last.called
     /\ Len(meta_last.assertions) = 1
     /\ meta_last.assertions[1][1] \notin DOMAIN meta_pre
     /\ meta_last.assertions[1][2] = DB_VALUE_TYPE
     /\ meta_last.assertions[1][3] \in {RefV(x) : x \in ValueTypeIdents})
        => /\ meta_last.ok
           /\ meta_last.assertions[1][1] \in DOMAIN schema_map
           /\ schema_map[meta_last.assertions[1][1]].value_type = meta_last.assertions[1][3].v

\* Thread t was returned a Store for `name` and still holds it.
HoldsStoreOf(t, name) ==
    th[t].pc = "done" /\ th[t].result = "ok" /\ th[t].name = name

\* C39: registry operations are atomic under concurrency: when two threads
\* open the same name side by side, the registry holds one entry for the name
\* and, while both returned Stores are alive, they share the Conn the entry
\* refers to.
C39_ConcurrentOpenSharesConn ==
    \A t, u \in Threads : \A name \in Names :
        (t # u /\ HoldsStoreOf(t, name) /\ HoldsStoreOf(u, name)) =>
            /\ is_open(name)
            /\ th[t].store = th[u].store
            /\ connections[name].conn = th[t].store
            /\ strong[th[t].store] >= 2
\* Two threads asked for the lock at the same time, for the same name, and
\* both hold the Store they were returned.
C39_Witness ==
    \E t, u \in Threads : \E name \in Names :
        /\ t # u /\ HoldsStoreOf(t, name) /\ HoldsStoreOf(u, name)
        /\ th[t].raced

\* The rows the last transaction wrote.
WrittenRows == log \ tl_pre.log

\* The rows the last transaction wrote that replace a value: an add of
\* (e, a, v_new), a cardinality-one and not :db/txInstant, where the store
\* held (e, a, v_old) with v_old # v_new.
ReplacingAdds ==
    {r \in WrittenRows :
        /\ r.added /\ CardinalityOne(r.a) /\ r.a # DB_TX_INSTANT
        /\ \E d \in tl_pre.datoms : d[1] = r.e /\ d[2] = r.a /\ d[3] # r.v}

\* C31: an add of (e, a, v_new) on a cardinality-one attribute whose current
\* value v_old differs from v_new writes, in the one transaction, exactly one
\* retraction, that of v_old, and exactly one assertion, that of v_new, for
\* (e, a); the :db/txInstant datom apart.
C31_CardinalityOneReplacement ==
    TransactOk =>
        \A r \in ReplacingAdds :
            LET mine == {w \in WrittenRows : w.e = r.e /\ w.a = r.a}
                olds == {d[3] : d \in {x \in tl_pre.datoms : x[1] = r.e /\ x[2] = r.a}}
            IN /\ \A w \in mine : w.tx = tl_last.tx /\ w.timeline = MAIN_TIMELINE
               /\ {w \in mine : w.added} = {r}
               /\ Cardinality({w \in mine : ~w.added}) = 1
               /\ \A w \in mine : ~w.added => w.v \in olds /\ w.v # r.v
               /\ <<r.e, r.a, r.v>> \in datoms
               /\ \A v \in olds : <<r.e, r.a, v>> \notin datoms

C31_Witness == TransactOk /\ ReplacingAdds # {}

\* The rows the last call on the password store wrote.
LgWritten == lg_log \ lg_pre.log

\* The last two calls applied the same record, and the first succeeded.
AppliedTwice ==
    /\ lg_last.op = "apply" /\ lg_last.prev.op = "apply"
    /\ lg_last.prev.ok /\ lg_last.prev.arg = lg_last.arg

MarkedLatest ==
    /\ lg_last.op = "mark" /\ lg_last.ok
    /\ lg_last.tx_id = lg_last.tx - 1
ToUploadBefore == get_modified_sync_passwords_to_upload(lg_pre.datoms, lg_pre.log)
ToUploadAfter == get_modified_sync_passwords_to_upload(lg_datoms, lg_log)

\* C33: after mark_synced_by_sync_uuids(U, tx) with tx the latest
\* transaction, get_modified_sync_passwords_to_upload returns no record
\* whose uuid is in U, and returns every record outside U that it returned
\* before the call.
C33_MarkedSyncedAreNotUploaded ==
    MarkedLatest =>
        /\ ToUploadAfter \cap lg_last.arg = {}
        /\ ToUploadBefore \ lg_last.arg \subseteq ToUploadAfter

C33_Witness ==
    /\ MarkedLatest
    /\ ToUploadBefore \cap lg_last.arg # {}
    /\ ToUploadBefore \ lg_last.arg # {}
    /\ lg_last.prev.op = "edit"

\* The last two calls deleted the same uuids, and the first went through.
DeletedTwice ==
    /\ lg_last.op = "delete" /\ lg_last.prev.op = "delete"
    /\ lg_last.prev.ok /\ lg_last.prev.arg = lg_last.arg
\* The datoms of the records: all but the :db/txInstant of the transactions.
RecordDatoms(ds) == {d \in ds : d[2] # DB_TX_INSTANT}

\* C34: deleting by sync uuid a second time succeeds and leaves the records
\* as the first delete left them: the deleted uuids read back as None and
\* every other record reads back as before.
C34_DeleteBySyncUuidIsIdempotent ==
    DeletedTwice =>
        /\ lg_last.ok
        /\ RecordDatoms(lg_datoms) = RecordDatoms(lg_pre.datoms)
        /\ \A u \in lg_last.arg : get_sync_password(lg_datoms, u) = None
        /\ \A u \in Uuids \ lg_last.arg :
              get_sync_password(lg_datoms, u) = get_sync_password(lg_pre.datoms, u)

\* The first delete retracted the record of a uuid, and another record is
\* there.
C34_Witness ==
    /\ DeletedTwice /\ lg_last.ok
    /\ \E u \in lg_last.arg : \E r \in lg_log :
          /\ ~ r.added /\ r.a = SYNC_PASSWORD_UUID /\ r.v = StrV(u) /\ r.tx = lg_last.tx - 1
    /\ \E u \in Uuids \ lg_last.arg : get_sync_password(lg_datoms, u) # None

====
